---- MODULE Spec2Model ----
(***************************************************************************)
(* Model of the orchestration engine of the Enterprise Data Analyst Agent: *)
(* the workflow state (core/state.py), the router (agents/supervisor.py),  *)
(* the worker protocol (agents/worker.py) and the graph, its three nodes   *)
(* and the event stream of EnterpriseDataTeam (workflow/team.py).          *)
(*                                                                         *)
(* Message contents are strings in the program.  The model keeps of a      *)
(* content exactly what the program reads from it: whether it contains     *)
(* "ANALYSIS:", "STRATEGY:" and "[Supervisor]", the agent name that        *)
(* follows "Routing to", and the "DATA: {...}" payload.  Every message     *)
(* also carries the number of its creation (id), standing for the rest of  *)
(* its text, so that two messages are equal only when they are the same    *)
(* message.                                                                *)
(***************************************************************************)
EXTENDS Integers, Sequences, FiniteSets, TLC

VARIABLES
    max_iterations,  \* EnterpriseDataTeam.max_iterations
    message_window,  \* EnterpriseDataTeam.message_window
    pc,              \* run_stream: "init" (not started), "loop", "done"
                     \* (returned), "crashed" (raised to the consumer)
    gpc,             \* the graph's next node: "supervisor", a worker, "END"
    gstate,          \* the graph's channel values (what the nodes are given)
    state,           \* run_stream's local variable state
    merged,          \* state["messages"] right after merge_partial_state
    events,          \* the events yielded so far, in order
    execLog,         \* the node executions completed so far, in order
    created,         \* number of messages created so far in this run
    raised,          \* an exception escaped workflow.stream
    closed,          \* the consumer closed the generator
    probe,           \* the last application of a function checked by itself:
                     \* its name, its arguments and what it returned
    runs             \* two runs of one EnterpriseDataTeam, interleaved

\* the variables of the run that Spec follows
runVars == <<max_iterations, message_window, pc, gpc, gstate, state, merged,
             events, execLog, created, raised, closed>>

vars == <<runVars, probe, runs>>

----------------------------------------------------------------------------
(* Bounds of the model *)

\* max_iterations is drawn from 0..MaxIter
MaxIter == 3
\* message_window is drawn from 1..MaxWindow
MaxWindow == 2
\* a first response requests at most MaxToolCalls tool calls
MaxToolCalls == 2
\* no run executes more nodes than this: max_iterations workers and one
\* supervisor more; the node steps are guarded by it
MaxSteps == 2 * MaxIter + 2

(* Program constants *)

\* state["messages"][-5:]
RecentWindow == 5
\* supervisor_messages[-3:]
RecentRoutings == 3

VALID_AGENTS == {"Data_Analyst", "Business_Strategist", "FINISH"}

None == "None"

----------------------------------------------------------------------------
(* Python helpers *)

\* s[-n:] for n >= 0 (s[-0:] is s[0:], the whole list)
PyTail(s, n) ==
    IF n = 0 \/ Len(s) <= n THEN s ELSE SubSeq(s, Len(s) - n + 1, Len(s))

----------------------------------------------------------------------------
(* Messages *)

\* A message: its class (type), what it is (kind), and the facts about its
\* content that the program reads; call is the tool_call_id of a Tool
\* message (0: none).
Msg(id, type, kind, an, st, sup, route, data) ==
    [id |-> id, type |-> type, kind |-> kind, an |-> an, st |-> st,
     sup |-> sup, route |-> route, data |-> data, call |-> 0]

\* msg.content, as carried by an action event
Content(m) == [id |-> m.id, kind |-> m.kind]

\* The queries a run is started with: a plain question, and one whose text
\* holds both sentinel markers.
Queries == {"plain", "both_markers"}

HumanMessage(q) ==
    Msg(1, "human", q, q = "both_markers", q = "both_markers", FALSE, "", None)

----------------------------------------------------------------------------
(* core/state.py *)

\* an initial state that counts the seeding of the query as an iteration
create_initial_state_counted(query) ==
    [messages |-> <<HumanMessage(query)>>,
     next_agent |-> None,
     iteration_count |-> 1,
     last_error |-> None,
     reasoning |-> None,
     raw_data |-> None]

create_initial_state(query) ==
    [messages |-> <<HumanMessage(query)>>,
     next_agent |-> None,
     iteration_count |-> 0,
     last_error |-> None,
     reasoning |-> None,
     raw_data |-> None]

\* the keys copied when the branch for iteration_count is missing
merge_keys_without_count ==
    {"messages", "next_agent", "last_error", "reasoning"}

\* the keys merge_partial_state copies from the partial
merge_keys ==
    {"messages", "iteration_count", "next_agent", "last_error", "reasoning"}

merge_partial_state(st, partial) ==
    [k \in DOMAIN st |->
        IF k \in merge_keys /\ k \in DOMAIN partial THEN partial[k] ELSE st[k]]

\* merge_partial_state changing the state it is given: updated = state
merge_effect_in_place(st, partial) ==
    [state |-> merge_partial_state(st, partial),
     updated |-> merge_partial_state(st, partial)]

\* What a call of merge_partial_state leaves behind: the dict it was given
\* (updated = state.copy() is a new dict, and only updated is assigned to)
\* and the dict it returns.
merge_effect(st, partial) ==
    [state |-> st, updated |-> merge_partial_state(st, partial)]

\* AgentState as the graph's channels: messages is Annotated[Sequence, add],
\* so a node's returned list is added to the channel's value; every other
\* key a node returns replaces the channel's value.
graph_update(g, partial) ==
    [k \in DOMAIN g |->
        IF k \in DOMAIN partial
        THEN IF k = "messages" THEN g[k] \o partial[k] ELSE partial[k]
        ELSE g[k]]

----------------------------------------------------------------------------
(* agents/supervisor.py *)

\* What the router's backend call (self.chain.invoke) can do: raise, or
\* return a RouteResponse whose next is any string and whose reasoning is
\* free text.  "data_visualizer" is a name that holds "visualizer" in lower
\* case, "Planner" a name outside the valid set.
RouterNames ==
    {"Data_Analyst", "Business_Strategist", "FINISH", "Visualizer",
     "data_visualizer", "Planner"}

\* Free-text reasonings of the backend: one that quotes no marker and one
\* that quotes "ANALYSIS:".
LlmReasonings == {"llm: plain", "llm: saw ANALYSIS: in messages"}

RouterResponses ==
    [raises : {FALSE}, next : RouterNames, reasoning : LlmReasonings]
    \cup {[raises |-> TRUE, next |-> None, reasoning |-> None]}

\* "ANALYSIS:" in reasoning, "STRATEGY:" in reasoning
ReasonHasAnalysis(r) == r = "llm: saw ANALYSIS: in messages"
ReasonHasStrategy(r) == FALSE

\* next_agent == "Visualizer" or "visualizer" in next_agent.lower()
IsVisualizer(n) == n = "Visualizer" \/ n \in {"data_visualizer"}

InvalidReasoning == "Invalid routing detected. Forcing termination."
SupervisorErrorReasoning == "Supervisor error: backend failure"

\* decide without the validation of the name
decide_unvalidated(resp) ==
    IF resp.raises
    THEN [next |-> "FINISH", reasoning |-> SupervisorErrorReasoning,
          raised |-> FALSE]
    ELSE [next |-> IF IsVisualizer(resp.next) THEN "Business_Strategist"
                   ELSE resp.next,
          reasoning |-> resp.reasoning, raised |-> FALSE]

\* decide without the except clause: a backend failure is raised
decide_propagates(resp) ==
    IF resp.raises
    THEN [next |-> None, reasoning |-> None, raised |-> TRUE]
    ELSE LET next_agent ==
                 IF IsVisualizer(resp.next) THEN "Business_Strategist"
                 ELSE resp.next
         IN  IF next_agent \notin VALID_AGENTS
             THEN [next |-> "FINISH", reasoning |-> InvalidReasoning,
                   raised |-> FALSE]
             ELSE [next |-> next_agent, reasoning |-> resp.reasoning,
                   raised |-> FALSE]

\* decide without the rewriting of the retired name
decide_no_rewrite(resp) ==
    IF resp.raises
    THEN [next |-> "FINISH", reasoning |-> SupervisorErrorReasoning,
          raised |-> FALSE]
    ELSE IF resp.next \notin VALID_AGENTS
         THEN [next |-> "FINISH", reasoning |-> InvalidReasoning,
               raised |-> FALSE]
         ELSE [next |-> resp.next, reasoning |-> resp.reasoning,
               raised |-> FALSE]

\* decide raising for a name outside VALID_AGENTS instead of returning FINISH
decide_raises_on_invalid(resp) ==
    IF resp.raises
    THEN [next |-> "FINISH", reasoning |-> SupervisorErrorReasoning,
          raised |-> FALSE]
    ELSE LET next_agent ==
                 IF IsVisualizer(resp.next) THEN "Business_Strategist"
                 ELSE resp.next
         IN  IF next_agent \notin VALID_AGENTS
             THEN [next |-> None, reasoning |-> None, raised |-> TRUE]
             ELSE [next |-> next_agent, reasoning |-> resp.reasoning,
                   raised |-> FALSE]

\* SupervisorAgent.decide: (next_agent, reasoning); never raises
decide(resp) ==
    IF resp.raises
    THEN [next |-> "FINISH", reasoning |-> SupervisorErrorReasoning,
          raised |-> FALSE]
    ELSE LET next_agent ==
                 IF IsVisualizer(resp.next) THEN "Business_Strategist"
                 ELSE resp.next
         IN  IF next_agent \notin VALID_AGENTS
             THEN [next |-> "FINISH", reasoning |-> InvalidReasoning,
                   raised |-> FALSE]
             ELSE [next |-> next_agent, reasoning |-> resp.reasoning,
                   raised |-> FALSE]

----------------------------------------------------------------------------
(* workflow/team.py: the Supervisor node *)

CapReasoning == "Maximum iterations reached. Terminating workflow."
CapError == "Max iterations reached"
CompletedReasoning == "Analysis and strategy tasks completed successfully."
StrategyDoneReasoning == "Strategy already completed. Task is finished."
NodeSupervisorErrorReasoning == "Supervisor error: decide raised"
NodeSupervisorError == "Supervisor failure: decide raised"
NodeInvalidReasoning == "Invalid routing. Forcing termination."
NodeInvalidError == "Invalid routing"

LoopReasoning(agent) ==
    CASE agent = "Data_Analyst" ->
            "Prevented infinite loop: Data_Analyst was called multiple times without completing its task."
      [] agent = "Business_Strategist" ->
            "Prevented infinite loop: Business_Strategist was called multiple times without completing its task."
      [] OTHER ->
            "Prevented infinite loop: another name was called multiple times without completing its task."

LoopReasonings ==
    {LoopReasoning(a) : a \in {"Data_Analyst", "Business_Strategist", ""}}

\* a window of the last two messages instead of five
recent_messages_short(msgs) == PyTail(msgs, 2)

\* recent_messages = state["messages"][-5:] if len > 5 else state["messages"]
recent_messages(msgs) ==
    IF Len(msgs) > RecentWindow THEN PyTail(msgs, RecentWindow) ELSE msgs

has_analysis(msgs) ==
    \E i \in 1..Len(recent_messages(msgs)) : recent_messages(msgs)[i].an

has_strategy(msgs) ==
    \E i \in 1..Len(recent_messages(msgs)) : recent_messages(msgs)[i].st

\* the contents of the recent messages that hold "[Supervisor]"
supervisor_messages(msgs) ==
    SelectSeq(recent_messages(msgs), LAMBDA m : m.sup)

\* the names parsed after "Routing to" in the last three of them
last_routings(msgs) ==
    LET picked == SelectSeq(PyTail(supervisor_messages(msgs), RecentRoutings),
                            LAMBDA m : m.route # "")
    IN  [i \in 1..Len(picked) |-> picked[i].route]

\* the agent the loop detection stops the run for, or None
repeated_agent(msgs) ==
    LET lr == last_routings(msgs)
        n == Len(lr)
    IN  IF /\ Len(supervisor_messages(msgs)) >= 2
           /\ n >= 2
           /\ lr[n] = lr[n - 1]
           /\ lr[n] # "FINISH"
           /\ ~ CASE lr[n] = "Data_Analyst" -> has_analysis(msgs)
                  [] lr[n] = "Business_Strategist" -> has_strategy(msgs)
                  [] OTHER -> FALSE
        THEN lr[n]
        ELSE None

\* state["iteration_count"] > self.max_iterations: the cap one turn late
cap_reached_late(st, max) == st.iteration_count > max

\* state["iteration_count"] >= self.max_iterations
cap_reached(st, max) == st.iteration_count >= max

\* a trace message whose content names no routing
SupervisorMsg_untagged(id, next_agent, reasoning) ==
    Msg(id, "ai", "trace", ReasonHasAnalysis(reasoning),
        ReasonHasStrategy(reasoning), FALSE, "", None)

\* supervisor_msg = AIMessage("[Supervisor] Routing to <agent>. Reasoning: <reasoning>")
SupervisorMsg(id, next_agent, reasoning) ==
    Msg(id, "ai", "trace", ReasonHasAnalysis(reasoning),
        ReasonHasStrategy(reasoning), TRUE, next_agent, None)

\* _supervisor_node(state) with the backend answering resp when it is asked:
\* the partial state returned, the return statement taken (path) and whether
\* the router was called.  id is the number of the message it may create.
supervisor_node(st, max, resp, id) ==
    IF cap_reached(st, max)
    THEN [path |-> "cap", router |-> FALSE,
          partial |-> [next_agent |-> "FINISH", reasoning |-> CapReasoning,
                       last_error |-> CapError]]
    ELSE IF has_analysis(st.messages) /\ has_strategy(st.messages)
    THEN [path |-> "completed", router |-> FALSE,
          partial |-> [next_agent |-> "FINISH",
                       reasoning |-> CompletedReasoning,
                       last_error |-> None]]
    ELSE IF repeated_agent(st.messages) # None
    THEN [path |-> "loop", router |-> FALSE,
          partial |-> [next_agent |-> "FINISH",
                       reasoning |-> LoopReasoning(repeated_agent(st.messages)),
                       last_error |-> None]]
    ELSE LET d == decide(resp) IN
         IF d.raised
         THEN [path |-> "supervisor_failure", router |-> TRUE,
               partial |-> [next_agent |-> "FINISH",
                            reasoning |-> NodeSupervisorErrorReasoning,
                            last_error |-> NodeSupervisorError]]
         ELSE IF d.next \notin VALID_AGENTS
         THEN [path |-> "invalid", router |-> TRUE,
               partial |-> [next_agent |-> "FINISH",
                            reasoning |-> NodeInvalidReasoning,
                            last_error |-> NodeInvalidError]]
         ELSE IF d.next = "Business_Strategist" /\ has_strategy(st.messages)
         THEN [path |-> "strategy_done", router |-> TRUE,
               partial |-> [next_agent |-> "FINISH",
                            reasoning |-> StrategyDoneReasoning,
                            last_error |-> None]]
         ELSE [path |-> "routed", router |-> TRUE,
               partial |-> [next_agent |-> d.next,
                            reasoning |-> d.reasoning,
                            messages |-> st.messages
                                \o <<SupervisorMsg(id, d.next, d.reasoning)>>,
                            last_error |-> None]]

----------------------------------------------------------------------------
(* agents/worker.py *)

\* What the backend and the tools do during one WorkerAgent.invoke:
\*   first   the first chain.invoke: it raises, or answers without tool
\*           calls (with or without "ANALYSIS:" in the text), or requests
\*           the tool calls of field calls;
\*   calls   for each requested call what becomes of it;
\*   tool    what the synthesized tool invocation does;
\*   second  the second chain.invoke, as first ("calls": it asks for tools
\*           again).
\* A tool outcome is "analysis" ("ANALYSIS: ... | DATA: {...}" with a flat
\* payload), "blocked" (an "ERROR: ..." text), "raise", or, for a requested
\* call, "not_found" (no registered tool has that name).
Script(first, calls, tool, second) ==
    [first |-> first, calls |-> calls, tool |-> tool, second |-> second]

\* the content of a tool's result
ToolMessage(outcome) ==
    CASE outcome = "analysis" ->
            Msg(0, "tool", "tool_result", TRUE, FALSE, FALSE, "", "flat")
      [] outcome = "blocked" ->
            Msg(0, "tool", "tool_blocked", FALSE, FALSE, FALSE, "", None)
      [] outcome = "raise" ->
            Msg(0, "tool", "tool_failed", FALSE, FALSE, FALSE, "", None)
      [] OTHER ->
            Msg(0, "tool", "tool_not_available", FALSE, FALSE, FALSE, "", None)

\* a response of the backend to a worker
ResponseMessage(kind, answer) ==
    Msg(0, "ai", kind, answer = "text_analysis", FALSE, FALSE, "", None)

ErrorMessage(kind) == Msg(0, "ai", kind, FALSE, FALSE, FALSE, "", None)

\* the messages of s numbered id0 + 1, id0 + 2, ... in order
Numbered(s, id0) == [i \in 1..Len(s) |-> [s[i] EXCEPT !.id = id0 + i]]

\* tool_call_id of a Tool message: the number of the requested call it
\* answers, ForcedCall for the synthesized invocation ("forced_call")
ForcedCall == 0 - 1

Keyed(m, c) == [m EXCEPT !.call = c]

\* What one WorkerAgent.invoke did: the list it returned (messages), whether
\* it raised instead (raised), the number of chain.invoke calls it made
\* (llm_calls), the outcomes of the tool.invoke calls it made, in order
\* (tools_run), and what the second chain.invoke was given after the
\* history of the state (second_input; <<>> when there was no second call).
Outcome(messages, llm_calls, tools_run, second_input) ==
    [messages |-> messages, raised |-> FALSE, llm_calls |-> llm_calls,
     tools_run |-> tools_run, second_input |-> second_input]

\* the outer except clause: "ERROR: <name> encountered an error: ..."
WorkerError(llm_calls, tools_run, second_input) ==
    Outcome(<<ErrorMessage("worker_error")>>, llm_calls, tools_run,
            second_input)

\* WorkerAgent.invoke of the Business_Strategist: the structured result is
\* wrapped as AIMessage("STRATEGY: <json>"), which carries no tool call
invoke_strategist(sc) ==
    IF sc.first = "raise"
    THEN WorkerError(1, <<>>, <<>>)
    ELSE Outcome(<<Msg(0, "ai", "strategy", FALSE, TRUE, FALSE, "", None)>>,
                 1, <<>>, <<>>)

\* invoke_forced that returns the final response before the Tool message
invoke_forced_unordered(sc) ==
    LET result == ResponseMessage("response", sc.first)
        tool_message == Keyed(ToolMessage(sc.tool), ForcedCall)
        final_result == ResponseMessage("final", sc.second)
    IN  IF sc.tool = "raise"
        THEN Outcome(<<ErrorMessage("forced_call_error")>>, 1, <<sc.tool>>,
                     <<>>)
        ELSE IF sc.second = "raise"
        THEN Outcome(<<ErrorMessage("forced_call_error")>>, 2, <<sc.tool>>,
                     <<result, tool_message>>)
        ELSE Outcome(<<result, final_result, tool_message>>, 2, <<sc.tool>>,
                     <<result, tool_message>>)

\* WorkerAgent.invoke of the Data_Analyst, forced tool usage (no tool call
\* in the first response): the tool is invoked directly and the backend
\* called again, inside a try block of their own
invoke_forced(sc) ==
    LET result == ResponseMessage("response", sc.first)
        tool_message == Keyed(ToolMessage(sc.tool), ForcedCall)
        final_result == ResponseMessage("final", sc.second)
    IN  IF sc.tool = "raise"
        THEN Outcome(<<ErrorMessage("forced_call_error")>>, 1, <<sc.tool>>,
                     <<>>)
        ELSE IF sc.second = "raise"
        THEN Outcome(<<ErrorMessage("forced_call_error")>>, 2, <<sc.tool>>,
                     <<result, tool_message>>)
        ELSE Outcome(<<result, tool_message, final_result>>, 2, <<sc.tool>>,
                     <<result, tool_message>>)

\* the tool messages of the requested calls, a call for an unregistered
\* tool left without an answer
tool_messages_skip_missing(calls) ==
    LET found == {i \in 1..Len(calls) : calls[i] # "not_found"}
        nth(k) == CHOOSE i \in found :
                      Cardinality({j \in found : j < i}) = k - 1
    IN  [k \in 1..Cardinality(found) |->
            Keyed(ToolMessage(calls[nth(k)]), nth(k))]

\* for tool_call in result.tool_calls: one ToolMessage per call, the tool's
\* result, or an error text when the tool raises or is not found
tool_messages_of(calls) ==
    [i \in 1..Len(calls) |-> Keyed(ToolMessage(calls[i]), i)]

\* invoke_calls that runs the tools a second time when the second response
\* asks for tools again, and calls the backend a third time
invoke_calls_recursive(sc) ==
    LET tool_messages == tool_messages_of(sc.calls)
        tools_run == SelectSeq(sc.calls, LAMBDA c : c # "not_found")
        messages == <<ResponseMessage("response", "calls")>> \o tool_messages
    IN  IF sc.second = "raise" THEN WorkerError(2, tools_run, messages)
        ELSE IF sc.second = "calls"
        THEN Outcome(messages \o tool_messages, 3, tools_run \o tools_run,
                     messages)
        ELSE Outcome(Append(messages, ResponseMessage("final", sc.second)),
                     2, tools_run, messages)

\* WorkerAgent.invoke of the Data_Analyst, the tool calls of the first
\* response executed in order and the backend called again
invoke_calls(sc) ==
    LET tool_messages == tool_messages_of(sc.calls)
        tools_run ==
            SelectSeq(sc.calls, LAMBDA c : c # "not_found")
        tool_analysis ==
            \E i \in 1..Len(tool_messages) : tool_messages[i].an
        final == ResponseMessage("final", sc.second)
        \* the "ANALYSIS:" prefix of a tool result is forced on the final text
        kept == IF tool_analysis /\ ~final.an
                THEN [final EXCEPT !.an = TRUE, !.kind = "final_forced"]
                ELSE final
        messages == <<ResponseMessage("response", "calls")>> \o tool_messages
    IN  IF sc.second = "raise" THEN WorkerError(2, tools_run, messages)
        ELSE IF sc.second = "calls"
        THEN Outcome(messages, 2, tools_run, messages)
        ELSE Outcome(Append(messages, kept), 2, tools_run, messages)

\* invoke without the outer try/except: a failure of chain.invoke leaves it
invoke_no_except(name, sc, id0) ==
    LET o == IF sc.first = "raise"
             THEN [WorkerError(1, <<>>, <<>>) EXCEPT
                      !.messages = <<>>, !.raised = TRUE]
             ELSE IF name = "Business_Strategist" THEN invoke_strategist(sc)
             ELSE IF ~(sc.first = "calls" /\ Len(sc.calls) > 0)
                  THEN invoke_forced(sc)
             ELSE IF sc.second = "raise"
                  THEN [invoke_calls(sc) EXCEPT
                           !.messages = <<>>, !.raised = TRUE]
             ELSE invoke_calls(sc)
    IN  [o EXCEPT !.messages = Numbered(@, id0),
                  !.second_input = Numbered(@, id0)]

\* WorkerAgent.invoke(state): what it did and the list of messages returned.
\* The messages it creates are numbered id0 + 1, ... in the order of their
\* creation, so a message given to the second chain.invoke and returned
\* afterwards bears the same number in both places.
invoke(name, sc, id0) ==
    LET o == IF name = "Business_Strategist" THEN invoke_strategist(sc)
             ELSE IF sc.first = "raise" THEN WorkerError(1, <<>>, <<>>)
             ELSE IF ~(sc.first = "calls" /\ Len(sc.calls) > 0)
                  THEN invoke_forced(sc)
             ELSE invoke_calls(sc)
    IN  [o EXCEPT !.messages = Numbered(@, id0),
                  !.second_input = Numbered(@, id0)]

----------------------------------------------------------------------------
(* workflow/team.py: the worker nodes *)

\* json.loads of the text re.search(r'DATA:\s*(\{.*?\})') finds: the match
\* ends at the first "}", so only a flat payload parses
ParsesAsJson(data) == data = "flat"

\* raw_data: the payload of the first message whose DATA section parses
RECURSIVE extract_raw_data(_)
extract_raw_data(msgs) ==
    IF msgs = <<>> THEN None
    ELSE IF Head(msgs).data # None /\ ParsesAsJson(Head(msgs).data)
         THEN Head(msgs).data
         ELSE extract_raw_data(Tail(msgs))

\* the success return without the increment of iteration_count
analyst_node_count_failures_only(st, result, fails, id) ==
    IF ~fails
    THEN [messages |-> st.messages \o result,
          iteration_count |-> st.iteration_count,
          next_agent |-> None,
          last_error |-> None,
          raw_data |-> extract_raw_data(result)]
    ELSE [messages |-> st.messages \o <<Msg(id, "ai", "node_error", FALSE,
                                           FALSE, FALSE, "", None)>>,
          iteration_count |-> st.iteration_count + 1,
          next_agent |-> None,
          last_error |-> "Data_Analyst failed",
          raw_data |-> st.raw_data]

\* the except branch without the increment of iteration_count
analyst_node_no_count(st, result, fails, id) ==
    IF ~fails
    THEN [messages |-> st.messages \o result,
          iteration_count |-> st.iteration_count + 1,
          next_agent |-> None,
          last_error |-> None,
          raw_data |-> extract_raw_data(result)]
    ELSE [messages |-> st.messages \o <<Msg(id, "ai", "node_error", FALSE,
                                           FALSE, FALSE, "", None)>>,
          iteration_count |-> st.iteration_count,
          next_agent |-> None,
          last_error |-> "Data_Analyst failed",
          raw_data |-> st.raw_data]

\* the analyst node returning no next_agent: the routing decision stays
analyst_node_keeps_next(st, result, fails, id) ==
    IF ~fails
    THEN [messages |-> st.messages \o result,
          iteration_count |-> st.iteration_count + 1,
          last_error |-> None,
          raw_data |-> extract_raw_data(result)]
    ELSE [messages |-> st.messages \o <<Msg(id, "ai", "node_error", FALSE,
                                           FALSE, FALSE, "", None)>>,
          iteration_count |-> st.iteration_count + 1,
          last_error |-> "Data_Analyst failed",
          raw_data |-> st.raw_data]

\* _analyst_node(state): result is what self.analyst_agent.invoke returned,
\* fails says that an exception was raised inside the node's try block (by
\* invoke, or by the statements after it)
analyst_node(st, result, fails, id) ==
    IF ~fails
    THEN [messages |-> st.messages \o result,
          iteration_count |-> st.iteration_count + 1,
          next_agent |-> None,
          last_error |-> None,
          raw_data |-> extract_raw_data(result)]
    ELSE [messages |-> st.messages \o <<Msg(id, "ai", "node_error", FALSE,
                                           FALSE, FALSE, "", None)>>,
          iteration_count |-> st.iteration_count + 1,
          next_agent |-> None,
          last_error |-> "Data_Analyst failed",
          raw_data |-> st.raw_data]

\* _strategist_node(state)
strategist_node(st, result, fails, id) ==
    IF ~fails
    THEN [messages |-> st.messages \o result,
          iteration_count |-> st.iteration_count + 1,
          next_agent |-> None,
          last_error |-> None]
    ELSE [messages |-> st.messages \o <<Msg(id, "ai", "node_error", FALSE,
                                           FALSE, FALSE, "", None)>>,
          iteration_count |-> st.iteration_count + 1,
          next_agent |-> None,
          last_error |-> "Business_Strategist failed"]

worker_node(name, st, result, fails, id) ==
    IF name = "Data_Analyst" THEN analyst_node(st, result, fails, id)
    ELSE strategist_node(st, result, fails, id)

----------------------------------------------------------------------------
(* workflow/team.py: the graph and run_stream *)

\* What one worker invocation can meet: every first answer, every outcome
\* of the synthesized tool call and of up to MaxToolCalls requested calls,
\* every second answer.  Fields a path does not read are fixed.
ToolOutcomes == {"analysis", "blocked", "raise"}
CallOutcomes == ToolOutcomes \cup {"not_found"}
Answers == {"raise", "text", "text_analysis", "calls"}
CallSeqs == UNION {[1..n -> CallOutcomes] : n \in 1..MaxToolCalls}

AllScripts(name) ==
    IF name = "Business_Strategist"
    THEN {Script(f, <<>>, "analysis", "text") : f \in {"raise", "text"}}
    ELSE {Script("raise", <<>>, "analysis", "text")}
         \cup {Script(f, <<>>, tl, s) :
                 f \in {"text", "text_analysis"}, tl \in ToolOutcomes,
                 s \in Answers}
         \cup {Script("calls", c, "analysis", s) :
                 c \in CallSeqs, s \in Answers}

\* The inputs a run is explored with.  A run with max_iterations <= 1 meets
\* every backend answer and every worker behaviour above; a longer run
\* meets these: the router names a worker, FINISH or an unknown name, or
\* fails; a worker fails, answers with its marker, or returns two or three
\* messages without it.
RunRouterResponses ==
    {r \in RouterResponses :
        /\ r.next \in {None, "Data_Analyst", "Business_Strategist", "FINISH",
                       "Planner"}
        /\ r.reasoning \in {None, "llm: plain"}}

RunScripts(name) ==
    IF name = "Business_Strategist"
    THEN AllScripts(name)
    ELSE {Script("raise", <<>>, "analysis", "text"),
          Script("text", <<>>, "blocked", "text"),
          Script("calls", <<"blocked">>, "analysis", "calls"),
          Script("calls", <<"analysis">>, "analysis", "text")}

router_responses ==
    IF max_iterations <= 1 THEN RouterResponses ELSE RunRouterResponses

worker_scripts(name) ==
    IF max_iterations <= 1 THEN AllScripts(name) ELSE RunScripts(name)

NoResponse == [raises |-> FALSE, next |-> None, reasoning |-> None]
NoScript == Script(None, <<>>, None, None)
\* no function was applied by itself; no pair of runs was started
NoProbe == [fn |-> None]
NoRuns == <<>>
\* no invocation of a worker agent was completed in this node execution
NoTrace == Outcome(<<>>, 0, <<>>, <<>>)

Workers == {"Data_Analyst", "Business_Strategist"}

\* the conditional edge with the two workers' entries exchanged
conditional_edge_swapped(g) ==
    CASE g.next_agent = "Data_Analyst" -> "Business_Strategist"
      [] g.next_agent = "Business_Strategist" -> "Data_Analyst"
      [] OTHER -> "END"

\* the conditional edge of the supervisor: next_agent names the next node
conditional_edge(g) ==
    CASE g.next_agent = "Data_Analyst" -> "Data_Analyst"
      [] g.next_agent = "Business_Strategist" -> "Business_Strategist"
      [] OTHER -> "END"

\* the window kept from the wrong end: state["messages"][:self.message_window]
apply_window_keep_oldest(st, window) ==
    IF Len(st.messages) > window
    THEN [st EXCEPT !.messages = SubSeq(st.messages, 1, window)]
    ELSE st

\* state["messages"] = state["messages"][-self.message_window:] when longer
apply_window(st, window) ==
    IF Len(st.messages) > window
    THEN [st EXCEPT !.messages = PyTail(st.messages, window)]
    ELSE st

\* The events; the time stamp of an event is left out.
StartEvent == [type |-> "start"]

DecisionEvent(st) ==
    [type |-> "decision", agent |-> "Supervisor",
     decision |-> st.next_agent, reasoning |-> st.reasoning,
     iteration_count |-> st.iteration_count, last_error |-> st.last_error]

ActionEvent(node_name, st) ==
    [type |-> "action", agent |-> node_name,
     output |-> IF st.messages # <<>>
                THEN Content(st.messages[Len(st.messages)])
                ELSE [id |-> 0, kind |-> ""],
     iteration_count |-> st.iteration_count, last_error |-> st.last_error]

FinishEvent(st) ==
    [type |-> "finish", final_iteration_count |-> st.iteration_count]

ErrorEvent == [type |-> "error"]

\* the body of "for node_name, partial in step.items()"
merge_step(partial) ==
    /\ merged' = merge_partial_state(state, partial).messages
    /\ state' = apply_window(merge_partial_state(state, partial),
                             message_window)

Init ==
    /\ max_iterations \in 0..MaxIter
    /\ message_window \in 1..MaxWindow
    /\ pc = "init"
    /\ gpc = "supervisor"
    /\ \E q \in Queries :
          /\ state = create_initial_state(q)
          /\ gstate = graph_update(
                 [create_initial_state(q) EXCEPT !.messages = <<>>],
                 [messages |-> create_initial_state(q).messages])
    /\ merged = state.messages
    /\ events = <<>>
    /\ execLog = <<>>
    /\ created = 1
    /\ raised = FALSE
    /\ closed = FALSE
    /\ probe = NoProbe
    /\ runs = NoRuns

\* the first next(): the start event
Start ==
    /\ pc = "init"
    /\ ~closed
    /\ pc' = "loop"
    /\ events' = Append(events, StartEvent)
    /\ UNCHANGED <<probe, runs, max_iterations, message_window, closed, gpc, gstate, state, merged,
                   execLog, created, raised>>

\* one step of workflow.stream that runs the supervisor node, and the
\* decision event for it
SupervisorStep ==
    /\ pc = "loop"
    /\ ~closed
    /\ gpc = "supervisor"
    /\ Len(execLog) < MaxSteps
    /\ \E resp \in router_responses :
          LET r == supervisor_node(gstate, max_iterations, resp, created + 1)
              g == graph_update(gstate, r.partial)
          IN  /\ gstate' = g
              /\ gpc' = conditional_edge(g)
              /\ merge_step(r.partial)
              /\ created' = IF "messages" \in DOMAIN r.partial
                            THEN created + 1 ELSE created
              /\ execLog' = Append(execLog,
                     [node |-> "supervisor", path |-> r.path,
                      router |-> r.router, decision |-> g.next_agent,
                      reasoning |-> g.reasoning,
                      last_error |-> g.last_error, marker |-> FALSE,
                      count |-> 0,
                      asked |-> IF r.router THEN resp ELSE NoResponse,
                      script |-> NoScript, trace |-> NoTrace])
    /\ events' = Append(events, DecisionEvent(state'))
    /\ UNCHANGED <<probe, runs, max_iterations, message_window, closed, pc, raised>>

\* one step of workflow.stream that runs a worker node, and the action
\* event for it
WorkerStep ==
    /\ pc = "loop"
    /\ ~closed
    /\ gpc \in Workers
    /\ Len(execLog) < MaxSteps
    /\ \E raises \in BOOLEAN :
       \E sc \in IF raises THEN {NoScript} ELSE worker_scripts(gpc) :
          LET trace == IF raises THEN NoTrace ELSE invoke(gpc, sc, created)
              fails == raises \/ trace.raised
              result == trace.messages
              partial == worker_node(gpc, gstate, result, fails, created + 1)
              new == IF fails THEN 1 ELSE Len(result)
          IN  /\ gstate' = graph_update(gstate, partial)
              /\ merge_step(partial)
              /\ created' = created + new
              /\ execLog' = Append(execLog,
                     [node |-> gpc, path |-> IF fails THEN "error" ELSE "success",
                      router |-> FALSE, decision |-> None,
                      reasoning |-> None,
                      last_error |-> partial.last_error,
                      marker |-> ~fails /\ \E i \in 1..Len(result) :
                                    IF gpc = "Data_Analyst" THEN result[i].an
                                    ELSE result[i].st,
                      count |-> new, asked |-> NoResponse, script |-> sc,
                      trace |-> trace])
    /\ gpc' = "supervisor"
    /\ events' = Append(events, ActionEvent(gpc, state'))
    /\ UNCHANGED <<probe, runs, max_iterations, message_window, closed, pc, raised>>

\* the finish event yielded only for a run that recorded no error
Finish_unless_error ==
    /\ pc = "loop"
    /\ ~closed
    /\ gpc = "END"
    /\ pc' = "done"
    /\ events' = IF state.last_error = None
                 THEN Append(events, FinishEvent(state)) ELSE events
    /\ UNCHANGED <<probe, runs, max_iterations, message_window, closed, gpc, gstate, state, merged,
                   execLog, created, raised>>

\* workflow.stream is exhausted: the finish event
Finish ==
    /\ pc = "loop"
    /\ ~closed
    /\ gpc = "END"
    /\ pc' = "done"
    /\ events' = Append(events, FinishEvent(state))
    /\ UNCHANGED <<probe, runs, max_iterations, message_window, closed, gpc, gstate, state, merged,
                   execLog, created, raised>>

\* the error event yielded by a finally-like handler that falls through to
\* the finish event
EngineFailure_then_finish ==
    /\ pc = "loop"
    /\ ~closed
    /\ gpc # "END"
    /\ Len(execLog) < MaxSteps
    /\ gpc' = "END"
    /\ raised' = TRUE
    /\ events' = Append(events, ErrorEvent)
    /\ UNCHANGED <<probe, runs, max_iterations, message_window, closed, pc, gstate, state, merged,
                   execLog, created>>

\* no except clause: the exception reaches the consumer
EngineFailure_reraise ==
    /\ pc = "loop"
    /\ ~closed
    /\ gpc # "END"
    /\ Len(execLog) < MaxSteps
    /\ pc' = "crashed"
    /\ raised' = TRUE
    /\ UNCHANGED <<probe, runs, max_iterations, message_window, closed, gpc, gstate, state, merged,
                   events, execLog, created>>

\* an exception leaves workflow.stream in place of the next step (raised by
\* a node outside its own try blocks, or by the graph): the except clause
\* yields the error event
EngineFailure ==
    /\ pc = "loop"
    /\ ~closed
    /\ gpc # "END"
    /\ Len(execLog) < MaxSteps
    /\ pc' = "done"
    /\ raised' = TRUE
    /\ events' = Append(events, ErrorEvent)
    /\ UNCHANGED <<probe, runs, max_iterations, message_window, closed, gpc, gstate, state, merged,
                   execLog, created>>

\* close() with an except clause that catches GeneratorExit as well: the
\* error event is yielded and close() raises RuntimeError
Close_caught ==
    /\ pc \in {"loop", "done"}
    /\ ~closed
    /\ closed' = TRUE
    /\ pc' = "crashed"
    /\ events' = Append(events, ErrorEvent)
    /\ UNCHANGED <<probe, runs, max_iterations, message_window, gpc, gstate,
                   state, merged, execLog, created, raised>>

\* the consumer closes the generator while it is suspended at a yield:
\* GeneratorExit is raised there, "except Exception" does not catch it, and
\* the generator ends
Close ==
    /\ pc \in {"loop", "done"}
    /\ ~closed
    /\ closed' = TRUE
    /\ UNCHANGED <<probe, runs, max_iterations, message_window, pc, gpc,
                   gstate, state, merged, events, execLog, created, raised>>

\* the steps of the generator, one for each next() of the consumer
Consume == Start \/ SupervisorStep \/ WorkerStep \/ Finish \/ EngineFailure

Next == Consume \/ Close

Spec == Init /\ [][Next]_vars

\* a run whose consumer reads the stream to its end; every backend call and
\* every tool call returns or raises: a run that can take a step takes one
LiveSpec == Init /\ [][Consume]_vars /\ WF_vars(Consume)

----------------------------------------------------------------------------
(* Two runs of one EnterpriseDataTeam instance, their steps interleaved.    *)
(* Each call of run_stream is a generator with a frame of its own: the      *)
(* local variable state, and the channels of its own workflow.stream call.  *)
(* The instance's attributes (max_iterations, message_window, the agents    *)
(* and the compiled graph) are shared and only read.                        *)

\* the largest max_iterations of the instance the two runs share
TwoMaxIter == 2

TwoQueries == <<"plain", "another question">>

\* what the backends answer during the two runs
TwoRouterResponses ==
    {r \in RouterResponses :
        /\ ~r.raises
        /\ r.next \in {"Data_Analyst", "Business_Strategist", "FINISH"}
        /\ r.reasoning = "llm: plain"}

TwoScripts(name) ==
    IF name = "Business_Strategist"
    THEN {Script("text", <<>>, "analysis", "text")}
    ELSE {Script("calls", <<"analysis">>, "analysis", "text"),
          Script("text", <<>>, "blocked", "text")}

\* the frame in which run r keeps its state: its own
frame_of_shared(r) == 1

frame_of(r) == r

\* a generator that has not run yet, and its frame
NewCtl == [pc |-> "init", gpc |-> "supervisor", events |-> <<>>]
NewFrame ==
    [state |-> [create_initial_state("") EXCEPT !.messages = <<>>],
     gstate |-> [create_initial_state("") EXCEPT !.messages = <<>>],
     created |-> 0]

\* One next() of a generator whose control is c and whose frame holds f,
\* on input inp: the new control and the new contents of the frame.
run_apply(c, f, max, window, inp) ==
    CASE inp.kind = "start" ->
            LET st == create_initial_state(inp.query)
            IN  [ctl |-> [c EXCEPT !.pc = "loop",
                                   !.events = Append(@, StartEvent)],
                 frame |-> [state |-> st,
                            gstate |-> graph_update(
                                [st EXCEPT !.messages = <<>>],
                                [messages |-> st.messages]),
                            created |-> 1]]
      [] inp.kind = "supervisor" ->
            LET r == supervisor_node(f.gstate, max, inp.resp, f.created + 1)
                g == graph_update(f.gstate, r.partial)
                st == apply_window(merge_partial_state(f.state, r.partial),
                                   window)
            IN  [ctl |-> [c EXCEPT !.gpc = conditional_edge(g),
                                   !.events = Append(@, DecisionEvent(st))],
                 frame |-> [state |-> st, gstate |-> g,
                            created |-> IF "messages" \in DOMAIN r.partial
                                        THEN f.created + 1 ELSE f.created]]
      [] inp.kind = "worker" ->
            LET trace == invoke(c.gpc, inp.script, f.created)
                partial == worker_node(c.gpc, f.gstate, trace.messages,
                                       FALSE, f.created + 1)
                st == apply_window(merge_partial_state(f.state, partial),
                                   window)
            IN  [ctl |-> [c EXCEPT !.gpc = "supervisor",
                                   !.events = Append(@, ActionEvent(c.gpc, st))],
                 frame |-> [state |-> st,
                            gstate |-> graph_update(f.gstate, partial),
                            created |-> f.created + Len(trace.messages)]]
      [] OTHER ->
            [ctl |-> [c EXCEPT !.pc = "done",
                               !.events = Append(@, FinishEvent(f.state))],
             frame |-> f]

\* the inputs a generator can meet at its next step
run_inputs(c, query) ==
    CASE c.pc = "init" ->
            {[kind |-> "start", query |-> query, resp |-> NoResponse,
              script |-> NoScript]}
      [] c.pc = "loop" /\ c.gpc = "supervisor" ->
            {[kind |-> "supervisor", query |-> query, resp |-> resp,
              script |-> NoScript] : resp \in TwoRouterResponses}
      [] c.pc = "loop" /\ c.gpc \in Workers ->
            {[kind |-> "worker", query |-> query, resp |-> NoResponse,
              script |-> sc] : sc \in TwoScripts(c.gpc)}
      [] c.pc = "loop" /\ c.gpc = "END" ->
            {[kind |-> "finish", query |-> query, resp |-> NoResponse,
              script |-> NoScript]}
      [] OTHER -> {}

\* the values of the run's variables while two runs are followed
RunIdle ==
    /\ pc = "init"
    /\ gpc = "supervisor"
    /\ state = create_initial_state("plain")
    /\ gstate = graph_update([state EXCEPT !.messages = <<>>],
                             [messages |-> state.messages])
    /\ merged = state.messages
    /\ events = <<>>
    /\ execLog = <<>>
    /\ created = 1
    /\ raised = FALSE
    /\ closed = FALSE

TwoInit ==
    /\ max_iterations \in 1..TwoMaxIter
    /\ message_window \in 1..MaxWindow
    /\ RunIdle
    /\ probe = NoProbe
    /\ runs = [ctl |-> <<NewCtl, NewCtl>>,
               frames |-> <<NewFrame, NewFrame>>,
               inputs |-> << <<>>, <<>> >>]

\* run r takes the step its generator is at, on input inp
TwoStep(r, inp) ==
    LET n == run_apply(runs.ctl[r], runs.frames[frame_of(r)],
                       max_iterations, message_window, inp)
    IN  /\ runs' = [ctl |-> [runs.ctl EXCEPT ![r] = n.ctl],
                    frames |-> [runs.frames EXCEPT ![frame_of(r)] = n.frame],
                    inputs |-> [runs.inputs EXCEPT ![r] = Append(@, inp)]]
        /\ UNCHANGED <<runVars, probe>>

TwoStart ==
    \E r \in 1..2 :
        /\ runs.ctl[r].pc = "init"
        /\ \E inp \in run_inputs(runs.ctl[r], TwoQueries[r]) : TwoStep(r, inp)

TwoSupervisorStep ==
    \E r \in 1..2 :
        /\ runs.ctl[r].pc = "loop" /\ runs.ctl[r].gpc = "supervisor"
        /\ \E inp \in run_inputs(runs.ctl[r], TwoQueries[r]) : TwoStep(r, inp)

TwoWorkerStep ==
    \E r \in 1..2 :
        /\ runs.ctl[r].pc = "loop" /\ runs.ctl[r].gpc \in Workers
        /\ \E inp \in run_inputs(runs.ctl[r], TwoQueries[r]) : TwoStep(r, inp)

TwoFinish ==
    \E r \in 1..2 :
        /\ runs.ctl[r].pc = "loop" /\ runs.ctl[r].gpc = "END"
        /\ \E inp \in run_inputs(runs.ctl[r], TwoQueries[r]) : TwoStep(r, inp)

TwoNext == TwoStart \/ TwoSupervisorStep \/ TwoWorkerStep \/ TwoFinish

TwoRunSpec == TwoInit /\ [][TwoNext]_vars

----------------------------------------------------------------------------
(* Code safety (src/tools/security.py)                                     *)
(* A code text is the sequence of its statements, a statement the          *)
(* sequence of its tokens.                                                 *)

\* the longest code text, in statements
MaxStatements == 2

FORBIDDEN_MODULES ==
    {"os", "sys", "subprocess", "shutil", "socket", "eval", "exec",
     "compile", "open"}

Keywords == {"import", "from", "as"}

Punctuation == {".", ",", "=", "(", ")"}

StringLiterals == {"'os'", "'__'", "'data.csv'"}

\* the tokens whose text holds two underscores in a row
DunderTokens == {"__import__", "__class__", "'__'"}

IsName(t) == t \notin Keywords \cup Punctuation \cup StringLiterals

CodeStatements ==
    {<<"import", "pandas", "as", "pd">>,
     <<"import", "os">>,
     <<"import", "os", ".", "path">>,
     <<"import", "pandas", ",", "sys">>,
     <<"import", "pandas", "as", "os">>,
     <<"import", "pandas", ".", "os">>,
     <<"from", "os", "import", "path">>,
     <<"from", "subprocess", ".", "x", "import", "path", "as", "pd">>,
     <<"from", "pandas", "import", "os">>,
     <<"from", ".", "import", "os">>,
     <<"from", ".", "os", "import", "path">>,
     <<"df", ".", "describe", "(", ")">>,
     <<"df", ".", "open", "(", ")">>,
     <<"df", ".", "describe", "(", "exec", ")">>,
     <<"eval", "(", "'os'", ")">>,
     <<"open", "(", "'data.csv'", ")">>,
     <<"x", "=", "df", ".", "os">>,
     <<"x", "=", "'os'">>,
     <<"socket", "=", "x">>,
     <<"x", ".", "__class__">>,
     <<"x", "=", "'__'">>,
     <<"__import__", "(", "'os'", ")">>,
     <<"import">>,
     <<"import", "pandas", "as">>,
     <<"from", "import", "x">>,
     <<"x", "=", "(">>,
     <<"x", "=", "import">>}

RECURSIVE CodeTextsOfLength(_)
CodeTextsOfLength(n) ==
    IF n = 0 THEN {<<>>}
    ELSE {Append(code, s) : code \in CodeTextsOfLength(n - 1),
                            s \in CodeStatements}

\* the empty text is a code text
CodeTexts == UNION {CodeTextsOfLength(n) : n \in 0..MaxStatements}

\* "__" in code
contains_dunder(code) ==
    \E i \in 1..Len(code) : \E j \in 1..Len(code[i]) :
        code[i][j] \in DunderTokens

\* AST nodes. names: the alias names of an Import, each the parts of its
\* dotted name; module: the parts of the module name of an ImportFrom,
\* <<>> for None; id: the identifier of a Name or an Attribute.
ImportNode(names) ==
    [type |-> "Import", names |-> names, module |-> <<>>, id |-> ""]

ImportFromNode(module) ==
    [type |-> "ImportFrom", names |-> <<>>, module |-> module, id |-> ""]

NameNode(id) ==
    [type |-> "Name", names |-> <<>>, module |-> <<>>, id |-> id]

AttributeNode(id) ==
    [type |-> "Attribute", names |-> <<>>, module |-> <<>>, id |-> id]

ConstantNode == [type |-> "Constant", names |-> <<>>, module |-> <<>>, id |-> ""]

\* index of the last token of the dotted name that starts at i, 0 if no
\* name starts there
RECURSIVE dotted_end(_, _)
dotted_end(toks, i) ==
    IF i > Len(toks) \/ ~IsName(toks[i]) THEN 0
    ELSE IF i + 2 <= Len(toks) /\ toks[i + 1] = "." /\ IsName(toks[i + 2])
         THEN dotted_end(toks, i + 2)
         ELSE i

dotted_parts(toks, i, e) ==
    [k \in 1..(((e - i) \div 2) + 1) |-> toks[i + 2 * (k - 1)]]

NoParse == [ok |-> FALSE, end |-> 0, names |-> <<>>, nodes |-> <<>>]

\* dotted_name ["as" NAME] ("," dotted_name ["as" NAME])* up to the end
RECURSIVE import_aliases(_, _)
import_aliases(toks, i) ==
    LET e == dotted_end(toks, i)
        after == IF /\ e # 0
                    /\ e + 2 <= Len(toks)
                    /\ toks[e + 1] = "as"
                    /\ IsName(toks[e + 2])
                 THEN e + 2 ELSE e
    IN  IF e = 0 THEN NoParse
        ELSE IF after = Len(toks)
        THEN [NoParse EXCEPT !.ok = TRUE,
                             !.names = <<dotted_parts(toks, i, e)>>]
        ELSE IF toks[after + 1] = ","
        THEN LET rest == import_aliases(toks, after + 2)
             IN  [rest EXCEPT
                    !.names = <<dotted_parts(toks, i, e)>> \o rest.names]
        ELSE NoParse

RECURSIVE leading_dots(_, _)
leading_dots(toks, i) ==
    IF i <= Len(toks) /\ toks[i] = "." THEN 1 + leading_dots(toks, i + 1)
    ELSE 0

\* "from" "."* [dotted_name] "import" NAME ["as" NAME]
parse_from(toks) ==
    LET level == leading_dots(toks, 2)
        e == dotted_end(toks, 2 + level)
        imp == IF e = 0 THEN 2 + level ELSE e + 1
        module == IF e = 0 THEN <<>> ELSE dotted_parts(toks, 2 + level, e)
        ok == /\ e # 0 \/ level > 0
              /\ imp + 1 <= Len(toks)
              /\ toks[imp] = "import"
              /\ IsName(toks[imp + 1])
              /\ \/ Len(toks) = imp + 1
                 \/ /\ Len(toks) = imp + 3
                    /\ toks[imp + 2] = "as"
                    /\ IsName(toks[imp + 3])
    IN  IF ok
        THEN [NoParse EXCEPT !.ok = TRUE, !.nodes = <<ImportFromNode(module)>>]
        ELSE NoParse

\* atom ("." NAME)* ["(" [expression] ")"], from token i; end is its last
\* token
RECURSIVE parse_expression(_, _)
parse_expression(toks, i) ==
    IF i > Len(toks) THEN NoParse
    ELSE IF toks[i] \in StringLiterals
    THEN [NoParse EXCEPT !.ok = TRUE, !.end = i, !.nodes = <<ConstantNode>>]
    ELSE IF ~IsName(toks[i]) THEN NoParse
    ELSE
        LET e == dotted_end(toks, i)
            primary == <<NameNode(toks[i])>>
                       \o [k \in 1..((e - i) \div 2) |->
                              AttributeNode(toks[i + 2 * k])]
        IN  IF e + 1 <= Len(toks) /\ toks[e + 1] = "("
            THEN IF e + 2 <= Len(toks) /\ toks[e + 2] = ")"
                 THEN [NoParse EXCEPT !.ok = TRUE, !.end = e + 2,
                                      !.nodes = primary]
                 ELSE LET arg == parse_expression(toks, e + 2)
                      IN  IF /\ arg.ok
                             /\ arg.end + 1 <= Len(toks)
                             /\ toks[arg.end + 1] = ")"
                          THEN [arg EXCEPT !.end = arg.end + 1,
                                           !.nodes = primary \o arg.nodes]
                          ELSE NoParse
            ELSE [NoParse EXCEPT !.ok = TRUE, !.end = e, !.nodes = primary]

\* one statement: an import, a from-import, an assignment to a name, or an
\* expression
parse_statement(toks) ==
    IF toks = <<>> THEN NoParse
    ELSE IF toks[1] = "import"
    THEN LET aliases == import_aliases(toks, 2)
         IN  IF aliases.ok
             THEN [NoParse EXCEPT !.ok = TRUE,
                                  !.nodes = <<ImportNode(aliases.names)>>]
             ELSE NoParse
    ELSE IF toks[1] = "from" THEN parse_from(toks)
    ELSE IF Len(toks) >= 2 /\ IsName(toks[1]) /\ toks[2] = "="
    THEN LET value == parse_expression(toks, 3)
         IN  IF value.ok /\ value.end = Len(toks)
             THEN [value EXCEPT !.nodes = <<NameNode(toks[1])>> \o value.nodes]
             ELSE NoParse
    ELSE LET value == parse_expression(toks, 1)
         IN  IF value.ok /\ value.end = Len(toks) THEN value ELSE NoParse

RECURSIVE walk(_, _)
walk(code, i) ==
    IF i > Len(code) THEN <<>>
    ELSE parse_statement(code[i]).nodes \o walk(code, i + 1)

\* ast.parse(code) and ast.walk(tree): ok is FALSE for a SyntaxError
ast_parse(code) ==
    [ok |-> \A i \in 1..Len(code) : parse_statement(code[i]).ok,
     nodes |-> walk(code, 1)]

\* name.split(".")[0] of a dotted name held as its parts
top_level(name) == name[1]

\* is_code_safe without the check of ast.Name nodes
is_code_safe_imports_only(code) ==
    IF contains_dunder(code) THEN FALSE
    ELSE LET tree == ast_parse(code)
         IN  IF ~tree.ok THEN FALSE
             ELSE \A k \in 1..Len(tree.nodes) :
                    LET node == tree.nodes[k]
                    IN  /\ node.type = "Import"
                           => \A a \in 1..Len(node.names) :
                                top_level(node.names[a])
                                    \notin FORBIDDEN_MODULES
                        /\ (node.type = "ImportFrom" /\ node.module # <<>>)
                           => top_level(node.module)
                                  \notin FORBIDDEN_MODULES

is_code_safe(code) ==
    IF contains_dunder(code) THEN FALSE
    ELSE LET tree == ast_parse(code)
         IN  IF ~tree.ok THEN FALSE
             ELSE \A k \in 1..Len(tree.nodes) :
                    LET node == tree.nodes[k]
                    IN  /\ node.type = "Import"
                           => \A a \in 1..Len(node.names) :
                                top_level(node.names[a])
                                    \notin FORBIDDEN_MODULES
                        /\ (node.type = "ImportFrom" /\ node.module # <<>>)
                           => top_level(node.module)
                                  \notin FORBIDDEN_MODULES
                        /\ node.type = "Name"
                           => node.id \notin FORBIDDEN_MODULES

\* validate_code_safety: the error for an unsafe text, None for a safe one
validate_code_safety(code) ==
    IF ~is_code_safe(code)
    THEN "Security violation detected. Execution blocked."
    ELSE None

\* the most validator calls made one after the other
MaxCalls == 3

ValidatorTexts ==
    {<<>>,
     <<<<"import", "pandas", "as", "pd">>>>,
     <<<<"import", "os">>>>,
     <<<<"df", ".", "describe", "(", ")">>>>,
     <<<<"open", "(", "'data.csv'", ")">>>>,
     <<<<"import">>>>}

\* a validator that remembers a rejection: once a text was rejected, every
\* later text is rejected
validator_call_sticky(calls, fn, code) ==
    Append(calls,
           [fn |-> fn, code |-> code,
            safe |-> /\ \A i \in 1..Len(calls) : calls[i].safe
                     /\ IF fn = "is_code_safe" THEN is_code_safe(code)
                        ELSE validate_code_safety(code) = None])

\* One more call of the validator after the calls made so far: the module
\* holds no state that a call writes (FORBIDDEN_MODULES is only read), so
\* the answer is computed from the text alone.
validator_call(calls, fn, code) ==
    Append(calls,
           [fn |-> fn, code |-> code,
            safe |-> IF fn = "is_code_safe" THEN is_code_safe(code)
                     ELSE validate_code_safety(code) = None])

----------------------------------------------------------------------------
(* Analysis tool (src/tools/analysis_tools.py) and the texts that carry    *)
(* structured data. A text is a sequence of tokens; a Python value is a    *)
(* record: t its type, k its key when it is a member of a dict, s its      *)
(* text when it is a scalar, items its elements or members.                *)

\* the most members of a dict
MaxMembers == 2

Word(text) == [kind |-> "word", text |-> text]

Punct(text) == [kind |-> "punct", text |-> text]

PyStr(s) == [t |-> "str", k |-> "", s |-> s, items |-> <<>>]

PyNumber(s) == [t |-> "number", k |-> "", s |-> s, items |-> <<>>]

PyNone == [t |-> "NoneType", k |-> "", s |-> "", items |-> <<>>]

PyList(items) == [t |-> "list", k |-> "", s |-> "", items |-> items]

PyDict(members) == [t |-> "dict", k |-> "", s |-> "", items |-> members]

Member(key, value) == [value EXCEPT !.k = key]

\* the strings that hold a closing brace
BraceStrings == {"a}b"}

RECURSIVE json_dumps(_)
RECURSIVE dumps_items(_, _)
\* the elements of a list or the members of a dict, from the i-th on,
\* separated by commas
dumps_items(v, i) ==
    IF i > Len(v.items) THEN <<>>
    ELSE (IF i > 1 THEN <<Punct(",")>> ELSE <<>>)
         \o (IF v.t = "dict"
             THEN <<[kind |-> "string", text |-> v.items[i].k], Punct(":")>>
             ELSE <<>>)
         \o json_dumps(v.items[i])
         \o dumps_items(v, i + 1)

\* json.dumps: the tokens of the JSON text of a value
json_dumps(v) ==
    CASE v.t = "str" -> <<[kind |-> "string", text |-> v.s]>>
      [] v.t = "number" -> <<[kind |-> "number", text |-> v.s]>>
      [] v.t = "NoneType" -> <<[kind |-> "null", text |-> "null"]>>
      [] v.t = "list" -> <<Punct("[")>> \o dumps_items(v, 1) \o <<Punct("]")>>
      [] v.t = "dict" -> <<Punct("{")>> \o dumps_items(v, 1) \o <<Punct("}")>>

NoValue == [ok |-> FALSE, end |-> 0, value |-> PyNone]

IsPunct(toks, i, text) == i <= Len(toks) /\ toks[i] = Punct(text)

RECURSIVE loads_value(_, _)
RECURSIVE loads_items(_, _, _, _)
\* the elements (close = "]") or members (close = "}") from token i up to
\* the closing token; acc holds those read so far
loads_items(toks, i, close, acc) ==
    LET keyed == close = "}"
        at == IF keyed THEN i + 2 ELSE i
        key_ok == \/ ~keyed
                  \/ /\ i + 1 <= Len(toks)
                     /\ toks[i].kind = "string"
                     /\ toks[i + 1] = Punct(":")
        v == IF key_ok THEN loads_value(toks, at) ELSE NoValue
        item == IF keyed /\ v.ok THEN Member(toks[i].text, v.value)
                ELSE v.value
    IN  IF ~v.ok THEN NoValue
        ELSE IF IsPunct(toks, v.end + 1, close)
        THEN [ok |-> TRUE, end |-> v.end + 1,
              value |-> IF keyed THEN PyDict(Append(acc, item))
                        ELSE PyList(Append(acc, item))]
        ELSE IF IsPunct(toks, v.end + 1, ",")
        THEN loads_items(toks, v.end + 2, close, Append(acc, item))
        ELSE NoValue

\* the JSON value that starts at token i
loads_value(toks, i) ==
    IF i > Len(toks) THEN NoValue
    ELSE CASE toks[i].kind = "string" ->
                [ok |-> TRUE, end |-> i, value |-> PyStr(toks[i].text)]
           [] toks[i].kind = "number" ->
                [ok |-> TRUE, end |-> i, value |-> PyNumber(toks[i].text)]
           [] toks[i].kind = "null" ->
                [ok |-> TRUE, end |-> i, value |-> PyNone]
           [] toks[i] = Punct("[") ->
                IF IsPunct(toks, i + 1, "]")
                THEN [ok |-> TRUE, end |-> i + 1, value |-> PyList(<<>>)]
                ELSE loads_items(toks, i + 1, "]", <<>>)
           [] toks[i] = Punct("{") ->
                IF IsPunct(toks, i + 1, "}")
                THEN [ok |-> TRUE, end |-> i + 1, value |-> PyDict(<<>>)]
                ELSE loads_items(toks, i + 1, "}", <<>>)
           [] OTHER -> NoValue

\* json.loads: ok is FALSE for a JSONDecodeError (no value, or text left
\* over after the value)
json_loads(toks) ==
    LET v == loads_value(toks, 1)
    IN  IF v.ok /\ v.end = Len(toks) THEN v ELSE NoValue

\* the token holds the character "}"
HoldsCloseBrace(tok) ==
    \/ tok = Punct("}")
    \/ tok.kind = "string" /\ tok.text \in BraceStrings

\* re.search(r'DATA:\s*(\{.*?\})', content, re.DOTALL): the leftmost
\* "DATA:" that an opening brace follows, and from there the shortest text
\* up to a closing brace. group is the captured text; a capture that ends
\* inside a string leaves that string cut.
data_match(content) ==
    LET starts == {i \in 1..(Len(content) - 1) :
                      /\ content[i] = Word("DATA:")
                      /\ content[i + 1] = Punct("{")
                      /\ \E e \in (i + 2)..Len(content) :
                             HoldsCloseBrace(content[e])}
    IN  IF starts = {} THEN [found |-> FALSE, group |-> <<>>]
        ELSE LET i == CHOOSE s \in starts : \A o \in starts : s <= o
                 e == CHOOSE c \in (i + 2)..Len(content) :
                        /\ HoldsCloseBrace(content[c])
                        /\ \A o \in (i + 2)..(c - 1) :
                               ~HoldsCloseBrace(content[o])
             IN  [found |-> TRUE,
                  group |-> IF content[e] = Punct("}")
                            THEN SubSeq(content, i + 1, e)
                            ELSE Append(SubSeq(content, i + 1, e - 1),
                                        [kind |-> "cut",
                                         text |-> content[e].text])]

\* _analyst_node on one message content: raw_data is the parsed capture,
\* and stays None (ok FALSE) without a match or on a JSONDecodeError
parse_raw_data(content) ==
    LET m == data_match(content)
    IN  IF m.found THEN json_loads(m.group) ELSE NoValue

\* the text the Data_Analyst's tool returns for a payload
analysis_text(summary, structured_data) ==
    <<Word("ANALYSIS:"), Word(summary), Punct("|"), Word("DATA:")>>
    \o json_dumps(structured_data)

\* the content the Business_Strategist returns for its structured output
\* (indent=2 adds white space only)
strategy_text(model_dump) == <<Word("STRATEGY:")>> \o json_dumps(model_dump)

\* the user queries the tool is called with
AnalysisQueries ==
    {"What is our ROI?", "What's our performance like?", "plain"}

\* the summary and the structured data the tool computes (mock data), by
\* the keywords of the query
analysis_result(user_query) ==
    CASE user_query = "What is our ROI?" ->
            [summary |-> "ROI Metrics - Overall ROI: 18.5%",
             structured_data |->
                PyDict(<<Member("labels", PyList(<<PyStr("Overall ROI"),
                                                   PyStr("Marketing ROI")>>)),
                         Member("values", PyList(<<PyNumber("18.5"),
                                                   PyNumber("24.3")>>)),
                         Member("units", PyList(<<PyStr("%"), PyStr("%")>>)),
                         Member("type", PyStr("roi")),
                         Member("highest", PyStr("Marketing ROI"))>>)]
      [] user_query = "What's our performance like?" ->
            [summary |-> "Overall Performance Overview",
             structured_data |->
                PyDict(<<Member("labels", PyList(<<PyStr("Revenue")>>)),
                         Member("values", PyList(<<PyNumber("5.1")>>)),
                         Member("units", PyList(<<PyStr("M")>>)),
                         Member("type", PyStr("performance_overview")),
                         Member("growth_percentage", PyNumber("18.3"))>>)]
      [] OTHER ->
            [summary |-> "Summary statistics computed successfully.",
             structured_data |->
                PyDict(<<Member("labels", PyList(<<PyStr("Category 1"),
                                                   PyStr("Category 2")>>)),
                         Member("values", PyList(<<PyNumber("100"),
                                                   PyNumber("200")>>)),
                         Member("units", PyList(<<PyNone, PyNone>>)),
                         Member("type", PyStr("general"))>>)]

SecurityViolation ==
    <<Word("ERROR: Security violation detected. Execution blocked.")>>

RuntimeFailure == <<Word("ERROR: Runtime failure during analysis:")>>

\* execute_python_analysis that runs the analysis without the safety check
execute_python_analysis_unchecked(code, user_query, fails) ==
    IF fails
    THEN [content |-> RuntimeFailure,
          steps |-> <<"_load_excel_data">>]
    ELSE [content |-> analysis_text(analysis_result(user_query).summary,
                         analysis_result(user_query).structured_data),
          steps |-> <<"_load_excel_data", "json.dumps">>]

\* execute_python_analysis(code, user_query); fails: the try block raises.
\* steps are the calls made, in their order.
execute_python_analysis(code, user_query, fails) ==
    IF ~is_code_safe(code)
    THEN [content |-> SecurityViolation, steps |-> <<"is_code_safe">>]
    ELSE IF fails
    THEN [content |-> RuntimeFailure,
          steps |-> <<"is_code_safe", "_load_excel_data">>]
    ELSE [content |-> analysis_text(analysis_result(user_query).summary,
                         analysis_result(user_query).structured_data),
          steps |-> <<"is_code_safe", "_load_excel_data", "json.dumps">>]

\* members a structured payload is built from: scalars, lists, a string
\* that holds a brace, a nested dict, a list of dicts (the actions of the
\* strategy schema)
MemberSamples ==
    {Member("type", PyStr("general")),
     Member("values", PyList(<<PyNumber("100"), PyNumber("200")>>)),
     Member("units", PyList(<<PyNone>>)),
     Member("note", PyStr("a}b")),
     Member("meta", PyDict(<<Member("source", PyStr("excel"))>>)),
     Member("actions",
            PyList(<<PyDict(<<Member("action", PyStr("Scale marketing")),
                              Member("rating", PyNumber("9"))>>)>>))}

RECURSIVE MembersOfLength(_)
MembersOfLength(n) ==
    IF n = 0 THEN {<<>>}
    ELSE {Append(ms, m) : ms \in MembersOfLength(n - 1), m \in MemberSamples}

StructuredPayloads ==
    {PyDict(ms) : ms \in
        {s \in UNION {MembersOfLength(n) : n \in 0..MaxMembers} :
            \A i, j \in 1..Len(s) : i # j => s[i].k # s[j].k}}
    \cup {analysis_result(q).structured_data : q \in AnalysisQueries}

\* the actions of a BusinessStrategyResponse
ActionSamples ==
    {PyDict(<<Member("action", PyStr("Scale marketing")),
              Member("rating", PyNumber("9")),
              Member("rationale", PyStr("Marketing ROI"))>>),
     PyDict(<<Member("action", PyStr("Optimize operations")),
              Member("rating", PyNumber("7")),
              Member("rationale", PyStr("a}b"))>>)}

RECURSIVE ActionsOfLength(_)
ActionsOfLength(n) ==
    IF n = 0 THEN {<<>>}
    ELSE {Append(as, a) : as \in ActionsOfLength(n - 1), a \in ActionSamples}

\* model_dump() of the strategy schema: actions and summary
StrategyPayloads ==
    {PyDict(<<Member("actions", PyList(as)),
              Member("summary", PyStr("Strong growth"))>>) :
        as \in UNION {ActionsOfLength(n) : n \in 1..(MaxMembers + 1)}}

\* the structured payloads a worker can put into a message: the strategy
\* schema for the Business_Strategist, any DATA section for the
\* Data_Analyst (the tool's payloads are among them)
WorkerPayloads(worker) ==
    IF worker = "Business_Strategist" THEN StrategyPayloads
    ELSE StructuredPayloads

\* a worker's structured output put into its text envelope, and what the
\* parser of the analyst node recovers from that text
round_trip(worker, payload) ==
    LET content == IF worker = "Business_Strategist"
                   THEN strategy_text(payload)
                   ELSE analysis_text("Summary", payload)
    IN  [content |-> content, recovered |-> parse_raw_data(content)]

----------------------------------------------------------------------------
(* The query of the synthesized tool invocation (src/agents/worker.py)     *)

\* the longest history the query is derived from
MaxHistory == 3

\* "Reasonable query length"
QueryLengthLimit == 500

\* len(content) of the sample contents
ContentLength(content) ==
    CASE content = "" -> 0
      [] content = "What is our profit margin?" -> 26
      [] content = "[Supervisor] Routing to Data_Analyst. Reasoning: data first" -> 59
      [] content = "long question" -> 700
      [] content = "long analysis" -> 600
      [] OTHER -> 13

\* the messages of a history: human questions, the Supervisor's trace, a
\* worker's long answer, a tool result, a response with tool calls and no
\* text
HistoryMessages ==
    {[type |-> "human", content |-> "What is our profit margin?"],
     [type |-> "human", content |-> "long question"],
     [type |-> "ai",
      content |-> "[Supervisor] Routing to Data_Analyst. Reasoning: data first"],
     [type |-> "ai", content |-> "long analysis"],
     [type |-> "tool", content |-> "long analysis"],
     [type |-> "ai", content |-> ""]}

Histories == UNION {[1..n -> HistoryMessages] : n \in 0..MaxHistory}

\* for msg in reversed(messages): the content of the first message, from
\* the end, that is human or shorter than the limit; "" when the loop ends
\* without a break
RECURSIVE scan_query(_, _)
scan_query(messages, i) ==
    IF i = 0 THEN ""
    ELSE IF messages[i].type = "human" THEN messages[i].content
    ELSE IF ContentLength(messages[i].content) < QueryLengthLimit
    THEN messages[i].content
    ELSE scan_query(messages, i - 1)

\* the query the code of the synthesized call is generated from
forced_query(messages) ==
    LET query == scan_query(messages, Len(messages))
    IN  IF query # "" THEN query
        ELSE IF messages # <<>> THEN messages[Len(messages)].content
        ELSE "data analysis"

----------------------------------------------------------------------------
(* utils/query_validator.py and api/routes.py *)

\* A Python str is modelled as the sequence of its characters.

\* the queries posted to /run: blank, matching an absurd pattern, short with
\* an unrelated keyword, mostly non-alphabetic, one repeated character, a
\* plain analysis question, vague ones, one that holds "test" inside
\* "latest", one with an upper-case letter, and a short one
PostedQueries ==
    {<<" ", " ", " ">>,
     <<"t", "e", "l", "l", " ", "m", "e", " ", "a", " ", "j", "o", "k", "e">>,
     <<"w", "e", "a", "t", "h", "e", "r", " ", "f", "o", "r", "e", "c", "a", "s", "t">>,
     <<"1", "2", "3", "4", "5", "6", "7", "8", "9", "0", "!", "@", "#">>,
     <<"a", "a", "a", "a", "a", "a", "a", "a">>,
     <<"a", "n", "a", "l", "y", "z", "e", " ", "r", "e", "v", "e", "n", "u", "e", " ", "t", "r", "e", "n", "d", "s">>,
     <<"h", "o", "w", " ", "a", "r", "e", " ", "w", "e", " ", "d", "o", "i", "n", "g", "?">>,
     <<"w", "h", "a", "t", " ", "i", "s", " ", "o", "u", "r", " ", "p", "e", "r", "f", "o", "r", "m", "a", "n", "c", "e">>,
     <<"s", "h", "o", "w", " ", "l", "a", "t", "e", "s", "t", " ", "s", "a", "l", "e", "s">>,
     <<"D", "r", "a", "w", " ", "a", " ", "r", "e", "v", "e", "n", "u", "e", " ", "c", "h", "a", "r", "t">>,
     <<"t", "e", "l", "l", " ", "m", "e", " ", "a", "b", "o", "u", "t", " ", "t", "h", "e", " ", "s", "a", "l", "e", "s">>,
     <<"q", "3", "?">>}

\* unrelated_keywords, in the order of the list
unrelated_keywords ==
    <<<<"r", "e", "c", "i", "p", "e">>,
      <<"c", "o", "o", "k", "i", "n", "g">>,
      <<"h", "o", "w", " ", "t", "o", " ", "c", "o", "o", "k">>,
      <<"i", "n", "g", "r", "e", "d", "i", "e", "n", "t", "s">>,
      <<"w", "e", "a", "t", "h", "e", "r">>,
      <<"f", "o", "r", "e", "c", "a", "s", "t">>,
      <<"t", "e", "m", "p", "e", "r", "a", "t", "u", "r", "e">>,
      <<"j", "o", "k", "e">>,
      <<"f", "u", "n", "n", "y">>,
      <<"m", "e", "m", "e">>,
      <<"l", "o", "l">>,
      <<"w", "h", "a", "t", " ", "i", "s", " ", "l", "o", "v", "e">>,
      <<"m", "e", "a", "n", "i", "n", "g", " ", "o", "f", " ", "l", "i", "f", "e">>,
      <<"p", "h", "i", "l", "o", "s", "o", "p", "h", "y">>,
      <<"r", "a", "n", "d", "o", "m">>,
      <<"t", "e", "s", "t">>,
      <<"a", "s", "d", "f">>,
      <<"q", "w", "e", "r", "t", "y">>,
      <<"h", "e", "l", "l", "o", " ", "w", "o", "r", "l", "d">>,
      <<"h", "i", " ", "t", "h", "e", "r", "e">>,
      <<"j", "u", "s", "t", " ", "t", "e", "s", "t", "i", "n", "g">>>>

\* A regular expression built from literals and alternations, as the
\* sequence of its alternations: absurd_patterns
absurd_patterns ==
    {<<{<<"t", "e", "l", "l", " ", "m", "e", " ">>},
       {<<"a">>, <<"t", "h", "e">>}, {<<" ">>},
       {<<"s", "t", "o", "r", "y">>, <<"j", "o", "k", "e">>, <<"t", "a", "l", "e">>}>>,
     <<{<<"s", "i", "n", "g", " ">>}, {<<"m", "e">>, <<"a">>, <<"t", "h", "e">>}>>,
     <<{<<"w", "h", "a", "t", " ">>},
        {<<"c", "o", "l", "o", "r">>, <<"a", "n", "i", "m", "a", "l">>, <<"f", "o", "o", "d">>},
        {<<" ">>}, {<<"d", "o">>, <<"d", "o", "e", "s">>, <<"i", "s">>}>>,
     <<{<<"d", "r", "a", "w">>, <<"p", "a", "i", "n", "t">>, <<"s", "k", "e", "t", "c", "h">>}>>,
     <<{<<"p", "l", "a", "y", " ">>},
        {<<"m", "u", "s", "i", "c">>, <<"s", "o", "n", "g">>, <<"g", "a", "m", "e">>}>>}

\* vague_patterns: those that end in $, and the one that does not
vague_patterns ==
    [whole |->
        {<<{<<"w", "h", "a", "t">>}, {<<"'", "s">>, <<" ", "i", "s">>},
           {<<" ">>}, {<<"o", "u", "r">>, <<"t", "h", "e">>}, {<<" ">>},
           {<<"p", "e", "r", "f", "o", "r", "m", "a", "n", "c", "e">>, <<"s", "t", "a", "t", "u", "s">>, <<"s", "i", "t", "u", "a", "t", "i", "o", "n">>},
           {<<>>, <<" ", "l", "i", "k", "e">>}, {<<>>, <<"?">>}>>,
         <<{<<"h", "o", "w", " ">>}, {<<"a", "r", "e">>, <<"i", "s">>},
            {<<" ">>},
            {<<"w", "e">>, <<"t", "h", "i", "n", "g", "s">>, <<"i", "t">>},
            {<<>>, <<" ", "d", "o", "i", "n", "g">>}, {<<>>, <<"?">>}>>},
     prefix |->
        {<<{<<"t", "e", "l", "l", " ", "m", "e", " ">>},
           {<<"a", "b", "o", "u", "t">>, <<"s", "o", "m", "e", "t", "h", "i", "n", "g">>},
           {<<" ">>}, {<<"o", "u", "r">>, <<"t", "h", "e">>}>>}]

\* c.isalpha(): the letters that occur in the modelled strings
isalpha(c) ==
    c \in {"a", "b", "c", "d", "e", "f", "g", "h", "i", "j", "k", "l", "m",
           "n", "o", "p", "q", "r", "s", "t", "u", "v", "w", "x", "y", "z",
           "D"}

\* str.lower(): "D" is the upper-case letter of the modelled strings
lower(s) == [i \in 1..Len(s) |-> IF s[i] = "D" THEN "d" ELSE s[i]]

\* str.strip(): the white space of the modelled strings is the space
strip(s) ==
    LET RECURSIVE lstrip(_)
        lstrip(x) ==
            IF x # <<>> /\ Head(x) = " " THEN lstrip(Tail(x)) ELSE x
        RECURSIVE rstrip(_)
        rstrip(x) ==
            IF x # <<>> /\ x[Len(x)] = " "
            THEN rstrip(SubSeq(x, 1, Len(x) - 1)) ELSE x
    IN  rstrip(lstrip(s))

\* sub in s
contains(s, sub) ==
    \E i \in 1..(Len(s) - Len(sub) + 1) :
        SubSeq(s, i, i + Len(sub) - 1) = sub

\* the strings a pattern of literals and alternations matches
RECURSIVE pattern_strings(_)
pattern_strings(p) ==
    IF p = <<>> THEN {<<>>}
    ELSE {a \o b : a \in Head(p), b \in pattern_strings(Tail(p))}

\* is_query_absurd(query): (is_absurd, reason); the reason is kept by its
\* fixed text, and by the keyword it quotes
is_query_absurd(query) ==
    LET query_lower == lower(strip(query))
        \* query.replace(" ", "")
        without_spaces == SelectSeq(query, LAMBDA c : c # " ")
        alpha_chars == Len(SelectSeq(query, isalpha))
        total_chars == Len(without_spaces)
        \* max(char_counts.values()) if char_counts else 0
        counts == {Cardinality({i \in 1..total_chars :
                                   without_spaces[i] = without_spaces[j]}) :
                      j \in 1..total_chars}
        max_repeat == IF counts = {} THEN 0
                      ELSE CHOOSE n \in counts : \A m \in counts : m <= n
        \* len(query_lower.split()): the maximal runs of non-space characters
        words == Cardinality({i \in 1..Len(query_lower) :
                                 /\ query_lower[i] # " "
                                 /\ (i = 1 \/ query_lower[i - 1] = " ")})
        hits == {k \in 1..Len(unrelated_keywords) :
                    contains(query_lower, unrelated_keywords[k])}
        \* re.search(pattern, query_lower)
        re_search(p) == \E m \in pattern_strings(p) : contains(query_lower, m)
    IN  IF query = <<>> \/ strip(query) = <<>>
        THEN [absurd |-> TRUE, reason |-> "Query is empty", keyword |-> <<>>]
        ELSE IF total_chars > 10 /\ 10 * alpha_chars < 3 * total_chars
        THEN [absurd |-> TRUE,
              reason |-> "Query contains too many non-alphabetic characters",
              keyword |-> <<>>]
        ELSE IF Len(query) > 5 /\ 10 * max_repeat > 7 * total_chars
        THEN [absurd |-> TRUE,
              reason |-> "Query contains too many repeated characters",
              keyword |-> <<>>]
        ELSE IF words <= 3 /\ hits # {}
        THEN [absurd |-> TRUE,
              reason |-> "Query appears to be unrelated to data analysis",
              keyword |-> unrelated_keywords[
                              CHOOSE k \in hits : \A h \in hits : k <= h]]
        ELSE IF \E p \in absurd_patterns : re_search(p)
        THEN [absurd |-> TRUE,
              reason |-> "Query is not a data analysis question",
              keyword |-> <<>>]
        ELSE [absurd |-> FALSE, reason |-> None, keyword |-> <<>>]

\* is_query_too_ambiguous(query)[0]: re.match with a pattern that ends in $
\* matches the whole string, without $ a prefix of it
is_query_too_ambiguous(query) ==
    LET query_lower == lower(strip(query))
        startswith(pre) ==
            Len(pre) <= Len(query_lower)
            /\ SubSeq(query_lower, 1, Len(pre)) = pre
    IN  \/ \E p \in vague_patterns.whole : query_lower \in pattern_strings(p)
        \/ \E p \in vague_patterns.prefix :
              \E m \in pattern_strings(p) : startswith(m)

\* what leaves the try block of run_workflow: the exception raised in it, or
\* the StreamingResponse it returns.  init_raises says that the constructor
\* of EnterpriseDataTeam raised.  team says that the constructor was called,
\* streaming that a generator over run_stream was handed to the response.
\* An exception's detail is kept by its leading text and by what it quotes.
run_workflow_try(query, init_raises) ==
    LET verdict == is_query_absurd(query)
    IN  IF verdict.absurd
        THEN [raised |-> TRUE,
              exc |-> [exc |-> "HTTPException", status_code |-> 400,
                       text |-> "Query rejected", about |-> verdict],
              team |-> FALSE, streaming |-> FALSE]
        ELSE IF init_raises
        THEN [raised |-> TRUE,
              exc |-> [exc |-> "Exception", status_code |-> 0,
                       text |-> "EnterpriseDataTeam", about |-> verdict],
              team |-> TRUE, streaming |-> FALSE]
        ELSE [raised |-> FALSE,
              exc |-> [exc |-> None, status_code |-> 0,
                       text |-> None, about |-> verdict],
              team |-> TRUE, streaming |-> TRUE]

\* run_workflow(request): the HTTP status and detail the client gets.  An
\* HTTPException is an Exception, so "except Exception" takes the one raised
\* for an absurd query as well.
run_workflow(query, init_raises) ==
    LET body == run_workflow_try(query, init_raises)
    IN  IF body.raised
        THEN [status |-> 500, text |-> "Failed to execute workflow",
              about |-> body.exc, team |-> body.team,
              streaming |-> body.streaming]
        ELSE [status |-> 200, text |-> None, about |-> body.exc,
              team |-> body.team, streaming |-> body.streaming]

----------------------------------------------------------------------------
(* Functions applied by themselves: each action applies one function of    *)
(* the program to arguments drawn from a bounded set and records the       *)
(* arguments and the result in probe; a behaviour holds one application.   *)

\* states and partial updates merge_partial_state is applied to
ProbeMessages ==
    {<<>>, <<HumanMessage("plain")>>,
     <<HumanMessage("plain"), SupervisorMsg(2, "Data_Analyst", "llm: plain")>>}

ProbeStates ==
    [messages : ProbeMessages, next_agent : {None, "Data_Analyst"},
     iteration_count : 0..1, last_error : {None, "boom"},
     reasoning : {None, "llm: plain"}, raw_data : {None, "flat"}]

\* the values a partial can hold for each key; a partial holds any subset
\* of the keys
ProbePartialValues ==
    [messages : {<<>>, <<ErrorMessage("worker_error")>>},
     next_agent : {None, "FINISH"}, iteration_count : {2},
     last_error : {None, "later"}, reasoning : {"why"},
     raw_data : {"nested"}]

ProbePartials ==
    {[k \in keys |-> full[k]] :
        keys \in SUBSET {"messages", "next_agent", "iteration_count",
                         "last_error", "reasoning", "raw_data"},
        full \in ProbePartialValues}

PureInit ==
    /\ max_iterations = 0
    /\ message_window = 1
    /\ RunIdle
    /\ probe = NoProbe
    /\ runs = NoRuns

ApplyMerge ==
    /\ probe = NoProbe
    /\ \E st \in ProbeStates, partial \in ProbePartials :
          probe' = [fn |-> "merge_partial_state", state |-> st,
                    partial |-> partial,
                    effect |-> merge_effect(st, partial)]
    /\ UNCHANGED <<runVars, runs>>

ApplySafe ==
    /\ probe = NoProbe
    /\ \E code \in CodeTexts :
          probe' = [fn |-> "is_code_safe", code |-> code,
                    safe |-> is_code_safe(code)]
    /\ UNCHANGED <<runVars, runs>>

ValidatorCall ==
    /\ probe.fn \in {None, "validator"}
    /\ LET calls == IF probe.fn = None THEN <<>> ELSE probe.calls
       IN  /\ Len(calls) < MaxCalls
           /\ \E fn \in {"is_code_safe", "validate_code_safety"},
                 code \in ValidatorTexts :
                 probe' = [fn |-> "validator",
                           calls |-> validator_call(calls, fn, code)]
    /\ UNCHANGED <<runVars, runs>>

ApplyAnalysis ==
    /\ probe = NoProbe
    /\ \E code \in CodeTextsOfLength(0) \cup CodeTextsOfLength(1),
          user_query \in AnalysisQueries, fails \in BOOLEAN :
          probe' = [fn |-> "execute_python_analysis", code |-> code,
                    user_query |-> user_query, fails |-> fails,
                    out |-> execute_python_analysis(code, user_query, fails)]
    /\ UNCHANGED <<runVars, runs>>

ApplyRoundTrip ==
    /\ probe = NoProbe
    /\ \E worker \in Workers :
       \E payload \in WorkerPayloads(worker) :
          probe' = [fn |-> "round_trip", worker |-> worker,
                    payload |-> payload,
                    out |-> round_trip(worker, payload)]
    /\ UNCHANGED <<runVars, runs>>

ApplyForcedQuery ==
    /\ probe = NoProbe
    /\ \E messages \in Histories :
          probe' = [fn |-> "forced_query", messages |-> messages,
                    query |-> forced_query(messages)]
    /\ UNCHANGED <<runVars, runs>>

\* POST /run with a posted query: the client's view of run_workflow
ApplyRunWorkflow ==
    /\ probe = NoProbe
    /\ \E query \in PostedQueries, init_raises \in BOOLEAN :
          probe' = [fn |-> "run_workflow", query |-> query,
                    absurd |-> is_query_absurd(query).absurd,
                    ambiguous |-> is_query_too_ambiguous(query),
                    init_raises |-> init_raises,
                    result |-> run_workflow(query, init_raises)]
    /\ UNCHANGED <<runVars, runs>>

PureNext ==
    \/ ApplyMerge
    \/ ApplySafe
    \/ ValidatorCall
    \/ ApplyAnalysis
    \/ ApplyRoundTrip
    \/ ApplyForcedQuery
    \/ ApplyRunWorkflow

PureSpec == PureInit /\ [][PureNext]_vars

----------------------------------------------------------------------------
(* The claims *)

Last(s) == s[Len(s)]

\* the worker-node executions among the first n node executions
WorkerExecsBefore(n) ==
    Cardinality({i \in 1..n : execLog[i].node \in Workers})

WorkerExecs == WorkerExecsBefore(Len(execLog))

\* this step is an execution of the Supervisor node
SupervisorTurn ==
    pc = "loop" /\ gpc = "supervisor" /\ Len(execLog') = Len(execLog) + 1

\* C1: in every state of a run iteration_count, in the graph's state and in
\* run_stream's, is 0 plus the number of worker-node executions completed so
\* far, on the success path or the error path; hence the Supervisor node
\* does not change it and it never decreases.
C1_IterationCount ==
    /\ gstate.iteration_count = WorkerExecs
    /\ state.iteration_count = WorkerExecs

\* a run in which a worker node took its error path, another its success
\* path, and the Supervisor ran after both
C1_Witness ==
    /\ Len(execLog) >= 4
    /\ Last(execLog).node = "supervisor"
    /\ \E i, j \in 1..Len(execLog) :
          execLog[i].path = "error" /\ execLog[j].path = "success"

\* C2: a Supervisor turn that starts with iteration_count >= max_iterations
\* returns FINISH with the cap reasoning, whatever the history holds, adds
\* no message, and does not run completion detection, loop detection or the
\* router.
C2_HardCap ==
    [][(SupervisorTurn /\ gstate.iteration_count >= max_iterations)
        => /\ gstate'.next_agent = "FINISH"
           /\ gstate'.reasoning = CapReasoning
           /\ Last(execLog').path = "cap"
           /\ ~Last(execLog').router
           /\ gstate'.messages = gstate.messages
           /\ gpc' = "END"
           /\ Last(events').decision = "FINISH"]_vars

\* the cap ended a run whose last five messages hold both markers
C2_Witness ==
    /\ execLog # <<>>
    /\ Last(execLog).path = "cap"
    /\ gstate.iteration_count >= 1
    /\ \E i, j \in 1..Len(gstate.messages) :
          /\ i > Len(gstate.messages) - 5 /\ gstate.messages[i].an
          /\ j > Len(gstate.messages) - 5 /\ gstate.messages[j].st

\* both markers occur in the contents of the last five messages
BothMarkersInLastFive(msgs) ==
    \E i, j \in 1..Len(msgs) :
        /\ i > Len(msgs) - 5 /\ msgs[i].an
        /\ j > Len(msgs) - 5 /\ msgs[j].st

\* C3: a Supervisor turn that starts below the cap forces FINISH with the
\* completion reasoning, without calling the router, exactly when both
\* markers occur in the last five messages of the history it is given; on
\* turn 1 with a query that holds neither marker it does not.
C3_CompletionDetection ==
    [][(SupervisorTurn /\ gstate.iteration_count < max_iterations)
        => /\ (/\ Last(execLog').path = "completed"
               /\ gstate'.next_agent = "FINISH"
               /\ gstate'.reasoning = CompletedReasoning
               /\ ~Last(execLog').router)
              <=> BothMarkersInLastFive(gstate.messages)
           /\ Last(execLog').path = "completed"
                 => /\ gstate'.next_agent = "FINISH"
                    /\ gstate'.reasoning = CompletedReasoning
                    /\ ~Last(execLog').router
           /\ (execLog = <<>> /\ gstate.messages[1].kind = "plain")
                 => Last(execLog').path # "completed"]_vars

\* completion detection ended a run after both workers produced their
\* deliverables
C3_Witness ==
    /\ Len(execLog) >= 5
    /\ Last(execLog).path = "completed"
    /\ gstate.iteration_count < max_iterations

\* C4: if two consecutive Supervisor turns route to the same worker and
\* neither of the two executions of that worker produces its completion
\* marker, then the third Supervisor turn, when it starts below the cap,
\* forces FINISH through loop detection, without calling the router and with
\* last_error unset, whatever number of messages the executions returned.
C4_LoopDetectedOnThirdTurn ==
    \A i \in 1..Len(execLog) :
        (/\ i + 4 <= Len(execLog)
         /\ execLog[i].node = "supervisor"
         /\ execLog[i].path = "routed"
         /\ execLog[i].decision \in Workers
         /\ execLog[i + 2].path = "routed"
         /\ execLog[i + 2].decision = execLog[i].decision
         /\ ~execLog[i + 1].marker
         /\ ~execLog[i + 3].marker
         /\ WorkerExecsBefore(i + 4) < max_iterations)
        => /\ execLog[i + 4].path = "loop"
           /\ ~execLog[i + 4].router
           /\ execLog[i + 4].reasoning \in LoopReasonings
           /\ execLog[i + 4].last_error = None

\* the name the backend's answer stands for once aliases are rewritten
Rewritten(name) ==
    IF name \in {"Visualizer", "data_visualizer"} THEN "Business_Strategist"
    ELSE name

EventsOfType(ty) == {i \in 1..Len(events) : events[i].type = ty}

\* C7: the event stream is one start event, then one event per executed
\* node in execution order (a decision event for a Supervisor execution, an
\* action event named after the worker for a worker execution), then, once
\* the stream has ended, one terminal event, finish or error, and nothing
\* after it.
C7_StreamShape ==
    /\ pc = "init" => events = <<>>
    /\ pc # "init" =>
          /\ Len(events) = 1 + Len(execLog) + (IF pc = "loop" THEN 0 ELSE 1)
          /\ events[1].type = "start"
          /\ \A i \in 1..Len(execLog) :
                IF execLog[i].node = "supervisor"
                THEN /\ events[i + 1].type = "decision"
                     /\ events[i + 1].agent = "Supervisor"
                ELSE /\ events[i + 1].type = "action"
                     /\ events[i + 1].agent = execLog[i].node
          /\ pc # "loop" =>
                /\ pc = "done"
                /\ Last(events).type \in {"finish", "error"}

\* a stream consumed to its end after two workers ran
C7_Witness ==
    /\ pc = "done"
    /\ Len(execLog) >= 5
    /\ Last(events).type = "finish"

\* C8: when an exception escapes the driving loop, at any step of a run,
\* the stream ends with exactly one error event, holds no finish event, the
\* generator returns instead of raising, and no node is executed and no
\* event is yielded in that step's place or afterwards.
C8_EngineFailure ==
    /\ [](raised => /\ pc = "done"
                    /\ Last(events).type = "error"
                    /\ Cardinality(EventsOfType("error")) = 1
                    /\ EventsOfType("finish") = {})
    /\ [][/\ (raised' /\ ~raised)
                => /\ events' = Append(events, ErrorEvent)
                   /\ UNCHANGED <<execLog, gstate, state>>
          /\ raised => UNCHANGED <<events, execLog, gstate, state, pc>>]_vars

\* the exception came after a worker had run
C8_Witness ==
    /\ raised
    /\ Len(execLog) >= 2
    /\ Last(events).type = "error"

\* C9: every run reaches its terminal event, finish or error, for every
\* max_iterations >= 0 and whatever the router and the workers answer.
C9_Terminates ==
    <>(pc = "done" /\ Last(events).type \in {"finish", "error"})

\* a run that only the iteration cap ended
C9_Witness ==
    /\ pc = "done"
    /\ Last(events).type = "finish"
    /\ Last(execLog).path = "cap"
    /\ max_iterations >= 2
    /\ gstate.iteration_count = max_iterations

\* C10: with message_window >= 1, once a step's partial is merged and
\* windowed, state["messages"] holds at most message_window entries; a
\* merged list longer than the window is cut to exactly its last
\* message_window entries in their order, a shorter one is kept; and the
\* output of an action event is the content of the last of these messages.
C10_Window ==
    /\ Len(state.messages) <= message_window
    /\ Len(merged) > message_window
          => state.messages =
                [i \in 1..message_window |->
                    merged[Len(merged) - message_window + i]]
    /\ Len(merged) <= message_window => state.messages = merged
    /\ (events # <<>> /\ Last(events).type = "action")
          => Last(events).output = Content(Last(state.messages))

\* a worker's step whose merged list was longer than a window of two
C10_Witness ==
    /\ message_window >= 2
    /\ Len(merged) > message_window + 1
    /\ events # <<>>
    /\ Last(events).type = "action"

\* C11: the first node executed is the Supervisor; a Supervisor execution
\* is followed by the worker its next_agent names, or by no node when
\* next_agent is FINISH; a worker execution is followed by the Supervisor.
\* So an action event comes right after a decision event that names its
\* agent, and a finish event right after a decision event deciding FINISH.
C11_Transitions ==
    /\ execLog # <<>> => execLog[1].node = "supervisor"
    /\ \A i \in 1..Len(execLog) :
          IF execLog[i].node = "supervisor"
          THEN LET nxt == IF i < Len(execLog) THEN execLog[i + 1].node
                          ELSE gpc
               IN  IF execLog[i].decision \in Workers
                   THEN nxt = execLog[i].decision
                   ELSE /\ execLog[i].decision = "FINISH"
                        /\ i = Len(execLog)
                        /\ gpc = "END"
          ELSE IF i < Len(execLog) THEN execLog[i + 1].node = "supervisor"
               ELSE gpc = "supervisor"
    /\ \A j \in 1..Len(events) :
          /\ events[j].type = "action"
                => /\ j > 1
                   /\ events[j - 1].type = "decision"
                   /\ events[j - 1].decision = events[j].agent
          /\ events[j].type = "finish"
                => /\ j > 1
                   /\ events[j - 1].type = "decision"
                   /\ events[j - 1].decision = "FINISH"

\* a finished run in which both workers ran, each after its own decision
C11_Witness ==
    /\ pc = "done"
    /\ Last(events).type = "finish"
    /\ \E i, j \in 1..Len(events) :
          /\ events[i].type = "action" /\ events[i].agent = "Data_Analyst"
          /\ events[j].type = "action"
          /\ events[j].agent = "Business_Strategist"

\* the node executions in which a worker agent's invoke ran
Invocations == {i \in 1..Len(execLog) : execLog[i].script # NoScript}

\* a chain.invoke call of this invocation raised
BackendFailed(e) ==
    \/ e.script.first = "raise"
    \/ e.trace.llm_calls = 2 /\ e.script.second = "raise"

\* a message whose content starts with "ERROR:", made by invoke
IsErrorReply(m) ==
    m.type = "ai" /\ m.kind \in {"worker_error", "forced_call_error"}

\* C12: WorkerAgent.invoke never raises: whatever the backend and the tools
\* do, at the first call or a later one, it returns a non-empty list of
\* messages (so the node takes its success path), and a failure of a
\* backend call is returned as exactly one assistant message whose content
\* signals the error.
C12_InvokeNeverRaises ==
    \A i \in Invocations :
        LET e == execLog[i] IN
        /\ ~e.trace.raised
        /\ e.trace.messages # <<>>
        /\ e.path = "success"
        /\ BackendFailed(e)
              => /\ Len(e.trace.messages) = 1
                 /\ IsErrorReply(e.trace.messages[1])

\* the backend failed when called again after two tool calls had run
C12_Witness ==
    \E i \in Invocations :
        /\ execLog[i].script.first = "calls"
        /\ Len(execLog[i].script.calls) = 2
        /\ execLog[i].script.second = "raise"
        /\ execLog[i].trace.llm_calls = 2

\* the node executions in which the first response requested tool calls
ToolCallInvocations ==
    {i \in Invocations :
        execLog[i].script.first = "calls" /\ execLog[i].script.calls # <<>>}

\* what the Tool message of a requested call carries, by the call's outcome
ExpectedToolKind(outcome) ==
    CASE outcome = "analysis" -> "tool_result"
      [] outcome = "blocked" -> "tool_blocked"
      [] outcome = "raise" -> "tool_failed"
      [] outcome = "not_found" -> "tool_not_available"

\* C13: when the first response requests tool calls, each requested call,
\* in request order, gets exactly one Tool message keyed by the call's id:
\* the tool's result when the tool is registered and returns, an error text
\* when it is not registered or raises; only registered tools are run; and
\* the backend is then called exactly once more, with the history extended
\* by the first response and those Tool messages.
C13_ToolCallsAnswered ==
    \A i \in ToolCallInvocations :
        LET e == execLog[i]
            calls == e.script.calls
            given == e.trace.second_input
        IN  /\ Len(given) = 1 + Len(calls)
            /\ given[1].type = "ai" /\ given[1].kind = "response"
            /\ \A k \in 1..Len(calls) :
                  /\ given[k + 1].type = "tool"
                  /\ given[k + 1].call = k
                  /\ given[k + 1].kind = ExpectedToolKind(calls[k])
            /\ e.trace.tools_run =
                  SelectSeq(calls, LAMBDA c : c # "not_found")
            /\ e.trace.llm_calls = 2
            /\ e.script.second # "raise"
                  => /\ Len(e.trace.messages) >= Len(given)
                     /\ SubSeq(e.trace.messages, 1, Len(given)) = given

\* a call for an unregistered tool followed by a call whose tool raised
C13_Witness ==
    \E i \in ToolCallInvocations :
        /\ execLog[i].script.calls = <<"not_found", "raise">>
        /\ execLog[i].script.second = "text"
        /\ Len(execLog[i].trace.messages) = 4

\* C14: a tool that raises during a worker invocation is recorded as an
\* error-carrying Tool message, one for each such tool call, and the
\* worker goes on to call the backend again with it: both for a call the
\* backend requested and for the invocation synthesized when the
\* Data_Analyst's first response requested no tool.
C14_ToolFailureRecorded ==
    \A i \in Invocations :
        LET e == execLog[i]
            failures == {k \in 1..Len(e.trace.tools_run) :
                            e.trace.tools_run[k] = "raise"}
            records == {k \in 1..Len(e.trace.second_input) :
                           /\ e.trace.second_input[k].type = "tool"
                           /\ e.trace.second_input[k].kind = "tool_failed"}
        IN  failures # {}
               => /\ Cardinality(records) = Cardinality(failures)
                  /\ e.trace.llm_calls = 2

\* C15: one WorkerAgent.invoke calls the backend at most twice and runs at
\* most one round of tools (the requested calls, or the one synthesized
\* call); a backend call that failed is not issued again; and when the
\* second response asks for tools again no further tool is run and the
\* messages accumulated so far are returned: on the requested-call path
\* exactly the first response and the Tool messages.
C15_BoundedInvoke ==
    \A i \in Invocations :
        LET e == execLog[i]
            requested == e.script.first = "calls" /\ e.script.calls # <<>>
            round == IF e.node = "Business_Strategist" THEN 0
                     ELSE IF requested THEN Len(e.script.calls) ELSE 1
        IN  /\ e.trace.llm_calls \in 1..2
            /\ Len(e.trace.tools_run) <= round
            /\ e.script.first = "raise"
                  => e.trace.llm_calls = 1 /\ e.trace.tools_run = <<>>
            /\ (e.trace.llm_calls = 2 /\ e.script.second = "calls")
                  => /\ ~e.trace.raised
                     /\ Len(e.trace.messages) >= Len(e.trace.second_input)
                     /\ SubSeq(e.trace.messages, 1,
                               Len(e.trace.second_input))
                           = e.trace.second_input
                     /\ \A k \in 1..Len(e.trace.messages) :
                           ~IsErrorReply(e.trace.messages[k])
                     /\ requested
                           => e.trace.messages = e.trace.second_input

\* the second response asked for tools again after two tools had run
C15_Witness ==
    \E i \in Invocations :
        /\ execLog[i].script.second = "calls"
        /\ execLog[i].trace.llm_calls = 2
        /\ Len(execLog[i].trace.tools_run) = 2
        /\ Len(execLog[i].trace.messages) = 3

\* C16: a Supervisor turn that forces FINISH because the iteration cap is
\* reached leaves last_error unset (None), in the state after the turn and
\* in the decision event yielded for it.
C16_CapLeavesNoError ==
    \A i \in 1..Len(execLog) :
        execLog[i].path = "cap"
        => /\ execLog[i].last_error = None
           /\ events[i + 1].type = "decision"
           /\ events[i + 1].decision = "FINISH"
           /\ events[i + 1].last_error = None

\* the completion marker of worker w occurs in the last five messages
MarkerInWindow(w, msgs) ==
    \E k \in 1..Len(PyTail(msgs, RecentWindow)) :
        IF w = "Data_Analyst" THEN PyTail(msgs, RecentWindow)[k].an
        ELSE PyTail(msgs, RecentWindow)[k].st

\* C17: when the router's decision targets a worker, Data_Analyst or
\* Business_Strategist, whose completion marker is already in the trailing
\* window, the Supervisor node overrides it to FINISH with an
\* already-completed reasoning and the run ends without that worker being
\* executed again.
C17_RedundancyGuard ==
    [][(/\ SupervisorTurn
        /\ Last(execLog').router
        /\ ~Last(execLog').asked.raises
        /\ Rewritten(Last(execLog').asked.next) \in Workers
        /\ MarkerInWindow(Rewritten(Last(execLog').asked.next),
                          gstate.messages))
       => /\ Last(execLog').decision = "FINISH"
          /\ Last(execLog').reasoning = StrategyDoneReasoning
          /\ gpc' = "END"]_vars

\* this step is a completed execution of the Data_Analyst node
AnalystTurn ==
    pc = "loop" /\ gpc = "Data_Analyst" /\ Len(execLog') = Len(execLog) + 1

\* C18: when the Data_Analyst node completes and none of the messages it
\* produced holds a "DATA: {...}" section that parses, raw_data keeps the
\* value it had before the node ran: a payload stored by an earlier analyst
\* execution is still there.
C18_RawDataPreserved ==
    [][(/\ AnalystTurn
        /\ \A k \in 1..Len(Last(execLog').trace.messages) :
              LET m == Last(execLog').trace.messages[k]
              IN  m.data = None \/ ~ParsesAsJson(m.data))
       => gstate'.raw_data = gstate.raw_data]_vars

\* C19: when the router's backend answers the retired name "Visualizer",
\* decide rewrites it to Business_Strategist before validating it, and the
\* Supervisor node, with no "STRATEGY:" in its window, routes the run to the
\* Business_Strategist worker: it does not force FINISH and sets no error.
C19_RetiredAliasRouted ==
    [][(/\ SupervisorTurn
        /\ Last(execLog').router
        /\ ~Last(execLog').asked.raises
        /\ Last(execLog').asked.next = "Visualizer"
        /\ ~MarkerInWindow("Business_Strategist", gstate.messages))
       => /\ Last(execLog').path = "routed"
          /\ Last(execLog').decision = "Business_Strategist"
          /\ Last(execLog').last_error = None
          /\ Last(gstate'.messages).sup
          /\ Last(gstate'.messages).route = "Business_Strategist"
          /\ gpc' = "Business_Strategist"]_vars

\* the Business_Strategist ran after the backend had answered "Visualizer"
C19_Witness ==
    \E i \in 1..Len(execLog) - 1 :
        /\ execLog[i].router
        /\ execLog[i].asked.next = "Visualizer"
        /\ execLog[i + 1].node = "Business_Strategist"
        /\ execLog[i + 1].path = "success"

\* C20: when the consumer closes the generator at a yield point, run_stream
\* ends without raising: closing executes no node, calls no backend and no
\* tool, yields no event and changes no state, and nothing happens after.
C20_CloseStopsTheRun ==
    /\ [](pc # "crashed")
    /\ [][(closed' /\ ~closed)
             => UNCHANGED <<pc, gpc, gstate, state, merged, events, execLog,
                            created, raised>>]_vars
    /\ [][closed => UNCHANGED vars]_vars

\* the stream was closed after a worker's action event, with the graph
\* about to run the Supervisor again
C20_Witness ==
    /\ closed
    /\ pc = "loop"
    /\ gpc = "supervisor"
    /\ Len(execLog) >= 2
    /\ Last(events).type = "action"

\* what a generator run alone produces on the inputs given: its control and
\* the contents of its frame
RECURSIVE SoloRun(_, _, _)
SoloRun(inputs, max, window) ==
    IF inputs = <<>> THEN [ctl |-> NewCtl, frame |-> NewFrame]
    ELSE LET prev == SoloRun(SubSeq(inputs, 1, Len(inputs) - 1), max, window)
         IN  run_apply(prev.ctl, prev.frame, max, window, Last(inputs))

C22_NextAgentValid ==
    /\ gstate.next_agent \in {None} \cup VALID_AGENTS
    /\ state.next_agent \in {None} \cup VALID_AGENTS
    /\ execLog = <<>> => gstate.next_agent = None /\ state.next_agent = None
    /\ execLog # <<>> =>
          IF Last(execLog).node = "supervisor"
          THEN /\ Last(execLog).path \in
                     {"cap", "completed", "loop", "strategy_done", "routed"}
               /\ gstate.next_agent \in VALID_AGENTS
               /\ state.next_agent = gstate.next_agent
          ELSE /\ gstate.next_agent = None
               /\ state.next_agent = None

\* both workers have run, the Data_Analyst last, and the Supervisor's
\* choice of it has been cleared
C22_Witness ==
    /\ Len(execLog) >= 4
    /\ Last(execLog).node = "Data_Analyst"
    /\ execLog[Len(execLog) - 1].decision = "Data_Analyst"
    /\ state.next_agent = None
    /\ \E i \in 1..Len(execLog) : execLog[i].node = "Business_Strategist"

\* C23: merge_partial_state(state, partial) returns a state in which each
\* of messages, iteration_count, next_agent, last_error and reasoning that
\* partial holds has the partial's value, and every field partial does not
\* hold keeps the value it has in state; an empty partial returns a state
\* equal to the input; the input state is not modified.
C23_MergePartialState ==
    probe.fn = "merge_partial_state"
    => LET st == probe.state
           partial == probe.partial
           out == probe.effect.updated
       IN  /\ DOMAIN out = DOMAIN st
           /\ \A k \in {"messages", "iteration_count", "next_agent",
                        "last_error", "reasoning"} :
                 k \in DOMAIN partial => out[k] = partial[k]
           /\ \A k \in DOMAIN st \ DOMAIN partial : out[k] = st[k]
           /\ DOMAIN partial = {} => out = st
           /\ probe.effect.state = st

\* a partial with three of the keys, each with a value the state did not
\* have, merged into a state whose other fields are set
C23_Witness ==
    /\ probe.fn = "merge_partial_state"
    /\ DOMAIN probe.partial = {"messages", "iteration_count", "last_error"}
    /\ probe.state.last_error = "boom"
    /\ probe.partial.last_error = None
    /\ probe.state.reasoning = "llm: plain"
    /\ Len(probe.state.messages) = 2
    /\ probe.effect.updated.messages = <<>>

\* C24: the state a run starts from holds exactly one message, the Human
\* message carrying the run's query, with next_agent None, iteration_count
\* 0, last_error None, reasoning None and raw_data None, whatever another
\* run of the same instance has done before: nothing is carried over.
C24_FreshInitialState ==
    \A r \in 1..2 :
        Len(runs.inputs[r]) = 1
        => LET st == runs.frames[r].state IN
           /\ Len(st.messages) = 1
           /\ st.messages[1].type = "human"
           /\ st.messages[1].kind = TwoQueries[r]
           /\ st.next_agent = None
           /\ st.iteration_count = 0
           /\ st.last_error = None
           /\ st.reasoning = None
           /\ st.raw_data = None
           /\ DOMAIN st = {"messages", "next_agent", "iteration_count",
                           "last_error", "reasoning", "raw_data"}

\* the second run has just started, after the first one finished with an
\* analysis payload stored and two iterations counted
C24_Witness ==
    /\ Len(runs.inputs[2]) = 1
    /\ runs.ctl[1].pc = "done"
    /\ runs.frames[1].gstate.raw_data # None
    /\ runs.frames[1].state.iteration_count = 2

\* the statement is an import or a from-import that names a module whose
\* first segment is forbidden
ImportsForbidden(stmt) ==
    \/ /\ stmt[1] = "import"
       /\ \E i \in 2..Len(stmt) :
            stmt[i] \in FORBIDDEN_MODULES /\ stmt[i - 1] \in {"import", ","}
    \/ /\ stmt[1] = "from"
       /\ \E i \in 2..Len(stmt) :
            /\ stmt[i] \in FORBIDDEN_MODULES
            /\ \A j \in 2..(i - 1) : stmt[j] = "."

\* the statement holds a forbidden identifier that stands by itself: not
\* in an import, not after a dot
ReferencesForbidden(stmt) ==
    /\ stmt[1] \notin {"import", "from"}
    /\ \E i \in 1..Len(stmt) :
         stmt[i] \in FORBIDDEN_MODULES /\ (i = 1 \/ stmt[i - 1] # ".")

\* C25: is_code_safe returns false for code that contains "__", that does
\* not parse, that imports (import or from-import) a module whose top-level
\* name is forbidden, or that references a bare forbidden identifier; it
\* returns true for all other code, the empty string and
\* "import pandas as pd" included.
C25_IsCodeSafe ==
    probe.fn = "is_code_safe"
    => LET code == probe.code
           rejected ==
               \/ contains_dunder(code)
               \/ ~ast_parse(code).ok
               \/ \E i \in 1..Len(code) : ImportsForbidden(code[i])
               \/ \E i \in 1..Len(code) : ReferencesForbidden(code[i])
       IN  /\ probe.safe = ~rejected
           /\ code = <<>> => probe.safe
           /\ code = <<<<"import", "pandas", "as", "pd">>>> => probe.safe

\* "import pandas as pd" followed by open('data.csv') is rejected for the
\* bare name alone
C25_Witness ==
    /\ probe.fn = "is_code_safe"
    /\ probe.code = <<<<"import", "pandas", "as", "pd">>,
                      <<"open", "(", "'data.csv'", ")">>>>
    /\ ~probe.safe

C27_UnsafeCodeBlocked ==
    (probe.fn = "execute_python_analysis" /\ ~is_code_safe(probe.code))
    => /\ probe.out.content = SecurityViolation
       /\ \A i \in 1..Len(probe.out.content) :
             probe.out.content[i] \notin {Word("ANALYSIS:"), Word("DATA:")}
       /\ probe.out.steps = <<"is_code_safe">>

\* "import os" with the ROI query is blocked
C27_Witness ==
    /\ probe.fn = "execute_python_analysis"
    /\ probe.code = <<<<"import", "os">>>>
    /\ probe.user_query = "What is our ROI?"
    /\ ~probe.fails
    /\ probe.out.content = SecurityViolation

\* C28: round trip: every structured payload a worker can output (nested
\* objects included), put into the text envelope (prefix + serialized
\* payload) and given to the parser of the worker node, is recovered equal
\* to the original.
C28_RoundTrip ==
    probe.fn = "round_trip"
    => /\ probe.out.recovered.ok
       /\ probe.out.recovered.value = probe.payload

\* the Data_Analyst invocations whose first response came and requested no
\* tool call
ForcedInvocations ==
    {i \in Invocations :
        /\ execLog[i].node = "Data_Analyst"
        /\ execLog[i].script.first # "raise"
        /\ ~(execLog[i].script.first = "calls"
             /\ execLog[i].script.calls # <<>>)}

HumanPositions(messages) ==
    {i \in 1..Len(messages) : messages[i].type = "human"}

\* C30: in the synthesized tool invocation the query is the content of the
\* most recent human message whenever the history holds one; the latest
\* message of another role is used only when the history holds no human
\* message.
C30_QueryFromHumanMessage ==
    probe.fn = "forced_query"
    => LET humans == HumanPositions(probe.messages)
           latest == CHOOSE i \in humans : \A j \in humans : j <= i
       IN  humans # {} => probe.query = probe.messages[latest].content

\* the return statements of the Supervisor node that force FINISH
ForcedFinishPaths == {"cap", "completed", "loop", "strategy_done"}

\* C31: a Supervisor node execution returns its input history with exactly
\* one trace message "[Supervisor] Routing to <agent>. Reasoning: ..." added
\* when the router-backed decision is accepted (an accepted FINISH
\* included), and returns no messages on the forced-FINISH paths (cap,
\* completion detection, loop detection, redundancy guard); on every path
\* iteration_count and raw_data stay as they were.
C31_SupervisorTrace ==
    [][SupervisorTurn
       => LET e == Last(execLog')
          IN  /\ e.path \in ForcedFinishPaths \cup {"routed"}
              /\ e.path = "routed"
                 => /\ e.router
                    /\ Len(merged') = Len(gstate.messages) + 1
                    /\ SubSeq(merged', 1, Len(gstate.messages))
                          = gstate.messages
                    /\ Last(merged').type = "ai"
                    /\ Last(merged').sup
                    /\ Last(merged').route = gstate'.next_agent
                    /\ Last(merged').an = ReasonHasAnalysis(gstate'.reasoning)
                    /\ created' = created + 1
                    /\ Last(merged').id = created'
              /\ e.path \in ForcedFinishPaths
                 => /\ gstate'.next_agent = "FINISH"
                    /\ merged' = state.messages
                    /\ state'.messages = state.messages
                    /\ gstate'.messages = gstate.messages
                    /\ created' = created
              /\ gstate'.iteration_count = gstate.iteration_count
              /\ gstate'.raw_data = gstate.raw_data
              /\ state'.iteration_count = state.iteration_count
              /\ state'.raw_data = state.raw_data]_vars

\* the router's FINISH was accepted after an analyst execution that stored
\* a payload, and the trace message for it ends the returned history
C31_Witness ==
    /\ execLog # <<>>
    /\ Last(execLog).node = "supervisor"
    /\ Last(execLog).path = "routed"
    /\ Last(execLog).decision = "FINISH"
    /\ gstate.raw_data = "flat"
    /\ Last(merged).sup
    /\ Last(merged).route = "FINISH"

\* the Supervisor executions among the first n node executions
SupervisorExecsBefore(n) ==
    {i \in 1..n : execLog[i].node = "supervisor"}

\* C32: loop detection forces FINISH only when the engine itself recorded
\* routing decisions to the same worker on the last two Supervisor turns
\* (text in a human or a worker message is not a routing decision): it
\* never fires before the engine has routed to a worker twice.
C32_LoopNeedsTwoRoutings ==
    \A i \in 1..Len(execLog) :
        (execLog[i].node = "supervisor" /\ execLog[i].path = "loop")
        => \E j, k \in SupervisorExecsBefore(i - 1) :
              /\ j < k
              /\ \A o \in SupervisorExecsBefore(i - 1) : o <= j \/ o = k
              /\ execLog[j].path = "routed"
              /\ execLog[k].path = "routed"
              /\ execLog[j].decision \in Workers
              /\ execLog[k].decision = execLog[j].decision

\* C33: when the messages of a Data_Analyst execution hold a "DATA: {...}"
\* section that parses, the state run_stream obtains by merging the node's
\* partial state has raw_data equal to the parsed payload: the merge
\* applies every field of the partial, raw_data included.
C33_RawDataMerged ==
    [][(/\ AnalystTurn
        /\ Last(execLog').path = "success"
        /\ \E k \in 1..Len(Last(execLog').trace.messages) :
              LET m == Last(execLog').trace.messages[k]
              IN  m.data # None /\ ParsesAsJson(m.data))
       => /\ gstate'.raw_data = extract_raw_data(Last(execLog').trace.messages)
          /\ state'.raw_data = gstate'.raw_data]_vars

\* C34: the history each node observes (the graph state's messages) is
\* append-only and free of duplicates: the seed Human message followed by
\* the messages the executed nodes appended, each exactly once, in the
\* order of their production.
C34_HistoryWithoutDuplicates ==
    /\ [](/\ Len(gstate.messages) = created
          /\ \A i \in 1..Len(gstate.messages) : gstate.messages[i].id = i)
    /\ [][/\ Len(gstate'.messages) >= Len(gstate.messages)
          /\ SubSeq(gstate'.messages, 1, Len(gstate.messages))
                = gstate.messages]_vars

\* a step of workflow.stream that executes one node
NodeTurn == pc = "loop" /\ Len(execLog') = Len(execLog) + 1

\* the messages appended since run_stream last truncated its state
AppendedSinceTruncation ==
    IF execLog = <<>> THEN 1
    ELSE LET e == Last(execLog)
         IN  IF e.node = "supervisor"
             THEN (IF e.path = "routed" THEN 1 ELSE 0)
             ELSE e.count

\* C35: at every Supervisor or worker node execution the message history
\* passed to the node holds at most message_window messages plus the
\* messages appended since the last truncation (the seed message before the
\* first truncation, the previous node's new messages afterwards)
C35_WindowBoundsNodeHistory ==
    [][NodeTurn =>
          Len(gstate.messages) <= message_window + AppendedSinceTruncation]_vars

SupervisorExecs == Cardinality(SupervisorExecsBefore(Len(execLog)))

\* C36: in every state of a run iteration_count <= max_iterations, in the
\* graph's state and in run_stream's; no worker node is about to start while
\* iteration_count >= max_iterations; the run has executed at most
\* max_iterations worker nodes and at most max_iterations + 1 Supervisor
\* nodes (no worker at all when max_iterations = 0).
C36_IterationsWithinCap ==
    /\ gstate.iteration_count <= max_iterations
    /\ state.iteration_count <= max_iterations
    /\ gpc \in Workers => gstate.iteration_count < max_iterations
    /\ WorkerExecs <= max_iterations
    /\ SupervisorExecs <= max_iterations + 1
    /\ max_iterations = 0 => WorkerExecs = 0

\* a run that used its whole allowance: max_iterations >= 2 worker nodes and
\* max_iterations + 1 Supervisor nodes, the last one stopped by the cap
C36_Witness ==
    /\ max_iterations >= 2
    /\ WorkerExecs = max_iterations
    /\ SupervisorExecs = max_iterations + 1
    /\ gstate.iteration_count = max_iterations
    /\ Last(execLog).path = "cap"
    /\ pc = "done"

\* a run with max_iterations = 0: one Supervisor node, stopped by the cap,
\* and no worker
C36_ZeroCap ==
    /\ max_iterations = 0
    /\ pc = "done"
    /\ SupervisorExecs = 1
    /\ WorkerExecs = 0

\* the number of action events among the first n events
ActionEventsUpTo(n) ==
    Cardinality({j \in 1..n : events[j].type = "action"})

\* C37: in the event stream the iteration_count carried by each decision or
\* action event is the number of action events emitted up to and including
\* that event, and the final_iteration_count of the finish event is the
\* number of action events in the stream.
C37_EventCounts ==
    \A i \in 1..Len(events) :
        /\ events[i].type \in {"decision", "action"}
              => events[i].iteration_count = ActionEventsUpTo(i)
        /\ events[i].type = "finish"
              => events[i].final_iteration_count = ActionEventsUpTo(Len(events))

\* a finished stream with two action events and a decision event after each
C37_Witness ==
    /\ pc = "done"
    /\ Last(events).type = "finish"
    /\ Last(events).final_iteration_count = 2
    /\ \E i, j \in 1..Len(events) :
          /\ i < j
          /\ events[i].type = "action" /\ events[i].iteration_count = 1
          /\ events[j].type = "decision" /\ events[j].iteration_count = 2

\* C38: POST /run answers a query that is_query_absurd classifies as absurd
\* with status 400 and a detail that starts "Query rejected", without
\* constructing a team or handing a run to the response; a query that is
\* only too ambiguous is answered with the streaming response.
C38_AbsurdQueryRejected ==
    probe.fn = "run_workflow" =>
        /\ probe.absurd =>
              /\ probe.result.status = 400
              /\ probe.result.text = "Query rejected"
              /\ ~probe.result.team
              /\ ~probe.result.streaming
        /\ (~probe.absurd /\ probe.ambiguous /\ ~probe.init_raises) =>
              /\ probe.result.status = 200
              /\ probe.result.team
              /\ probe.result.streaming

\* the router's backend failed, or named an agent that is still outside the
\* valid set after the rewriting of the retired name
BackendFailedOrInvalid(resp) ==
    \/ resp.raises
    \/ Rewritten(resp.next) \notin VALID_AGENTS

====
